---- MODULE Spec2Model ----
(***************************************************************************)
(* EasyCV backend: the request handlers of backend/server.js (POST /upload, *)
(* POST /tailor-cv, GET /submission/:id) over the submission store          *)
(* (Supabase table cv_submissions), the Redis cache of middleware/cache.js  *)
(* and the cv-processing queue of middleware/queue.js.                      *)
(*                                                                         *)
(* Every handler is an async function: it is split at its awaits, and the   *)
(* position of each in-flight request is kept in req[r].pc, so that the     *)
(* handlers of concurrent requests interleave at the suspension points.     *)
(***************************************************************************)
EXTENDS Naturals, Integers, Sequences, FiniteSets, TLC

\* ------------------------------------------------------------------ bounds
\* Number of requests in flight at the same time.
MaxReqs == 2
\* Number of rows the store can hold (ids are 1..MaxSubs).
MaxSubs == 1
\* Number of jobs the cv-processing queue holds before new tailor requests wait.
MaxJobs == 1

\* ------------------------------------------------------- program constants
\* for (let attempt = 1; attempt <= 3; attempt++)
MaxAttempts == 3

Reqs == 1..MaxReqs
IdSpace == 1..MaxSubs
\* A submissionId that is not a UUID (rejected by validateTailorCv).
BadId == 0

\* ------------------------------------------------------------------ values
\* JavaScript null / undefined of a text field.
Null == "null"
\* JavaScript falsiness of a text field: !x
Falsy(x) == x \in {Null, ""}

\* "No object": JavaScript null where an object is expected.
NoData == [none |-> TRUE]
\* A store slot with no row.
NoRow == [norow |-> TRUE]
\* A Redis key that is not set.
Nil == [nil |-> TRUE]
\* No Bull job held by the request.
NoJob == [nojob |-> TRUE]

\* The row the insert of /upload creates; the store assigns the id.
NewRow(id, cv, js) ==
  [id |-> id, original_cv_text |-> cv, job_spec_text |-> js, status |-> "uploaded"]

\* .select('original_cv_text, job_spec_text'): the two-column projection.
TwoCol(row) ==
  [original_cv_text |-> row.original_cv_text, job_spec_text |-> row.job_spec_text]

\* JSON.stringify / JSON.parse of a plain object, as Redis stores it: the
\* string is a value of another type than the object it encodes.
JSON_stringify(v) == [json |-> v]
JSON_parse(s) == s.json

\* Response bodies (the details field of the validation and size errors is
\* left out).
ErrBody(msg) == [error |-> msg]
ErrInternal == ErrBody("Internal server error.")
ErrAiFailed == ErrBody("AI failed to generate a valid CV. Please try again.")
ErrMissingContent ==
  ErrBody("Missing original CV content or job spec content in database for tailoring.")
ErrValidation == ErrBody("Validation failed")
PdfBody == [pdf |-> TRUE]
\* { message, data: submissionData }: data is the array the insert returned.
UploadBody(rows) ==
  [message |-> "Files uploaded and submission created successfully!", data |-> rows]

VARIABLES
  store,      \* cv_submissions: id -> row or NoRow
  subCache,   \* Redis keys submission:<id>: id -> stringified value or Nil
  respCache,  \* Redis keys cache:/submission/<id>: id -> stringified body or Nil
  redisUp,    \* whether Redis commands succeed
  cvQueue,    \* waiting jobs of the cv-processing queue (their data)
  req,        \* the requests in flight: slot -> locals of its handler
  qjobs,      \* the jobs of the three Bull queues, by job id
  workerUp,   \* queue name -> whether its worker loop is running
  checks,     \* what the database and the system checks find: name -> BOOLEAN
  health,     \* last /health/comprehensive response; the timer and its log
  metrics,    \* healthMetrics counters, and the responses actually sent
  upl,        \* the latest /upload request as the client sent it, and its slot
  doc,        \* one parsed CV on its way through normalization and the template
              \* (raw: the data as JSON.parse returned it)
  ret,        \* one queue's retained completed and failed jobs
  lim,        \* rate limiters: each worker's hit counts for one client IP
  san,        \* one multipart request on its way down the middleware chain
  shut,       \* one worker process from serving to its exit on a signal
  rty,        \* one call of dbUtils.uploadFileWithRetry
  qto,        \* one call of dbUtils.queryWithTimeout
  brw         \* the rendering of each request step by step, and its browser

\* The state of the request handlers, of the queues, of the health module.
mainVars == <<store, subCache, respCache, redisUp, cvQueue, req>>
queueVars == <<qjobs, workerUp>>
healthVars == <<checks, health, metrics>>
\* The closer views of single operations: what an /upload request carried,
\* the data and markup of one rendering.
auxVars == <<upl, doc, ret, lim, san, shut, rty, qto, brw>>
vars == <<store, subCache, respCache, redisUp, cvQueue, req,
          qjobs, workerUp, checks, health, metrics, upl, doc, ret, lim, san, shut, rty, qto, brw>>

\* ------------------------------------------------------------ cache layer
\* cacheUtils.get: a Redis failure is caught and answered with null.
\* threw tells whether the call rejects (it never does).
cacheUtils_get(up, entry) ==
  IF up /\ entry # Nil
    THEN [threw |-> FALSE, val |-> JSON_parse(entry)]
    ELSE [threw |-> FALSE, val |-> NoData]

\* A set without its try/catch: the rejection of redis.setex reaches the caller.
cacheUtils_set_Rethrows(up, cache, id, value) ==
  IF up
    THEN [threw |-> FALSE, cache |-> [cache EXCEPT ![id] = JSON_stringify(value)]]
    ELSE [threw |-> TRUE, cache |-> cache]

\* cacheUtils.set: writes the stringified value; a Redis failure is caught.
cacheUtils_set(up, cache, id, value) ==
  IF up
    THEN [threw |-> FALSE, cache |-> [cache EXCEPT ![id] = JSON_stringify(value)]]
    ELSE [threw |-> FALSE, cache |-> cache]

\* cacheUtils.getSubmission / cacheSubmission: the key is submission:<id>.
getSubmission(up, id) == cacheUtils_get(up, subCache[id])
cacheSubmission(up, id, data) == cacheUtils_set(up, subCache, id, data)

\* cacheMiddleware for a GET: a hit answers with the cached body; a miss wraps
\* res.json so that the body sent is stored under cache:<url>; a Redis failure
\* is caught and the request goes to the handler with res.json unwrapped.
cacheMiddleware(up, entry) ==
  IF ~up THEN [next |-> "handler", override |-> FALSE, body |-> NoData]
  ELSE IF entry # Nil THEN [next |-> "respond", override |-> FALSE, body |-> JSON_parse(entry)]
  ELSE [next |-> "handler", override |-> TRUE, body |-> NoData]

\* The wrapped res.json of cacheMiddleware: redis.setex(key, ttl, body) is
\* issued for whatever body is sent; its rejection is caught.
res_json(up, cache, override, id, body) ==
  IF override /\ up THEN [cache EXCEPT ![id] = JSON_stringify(body)] ELSE cache

\* ---------------------------------------------------------------- requests
\* The locals of one handler invocation and, once pc = "done", its response.
IdleReq ==
  [kind |-> "idle", pc |-> "idle", id |-> BadId,
   blobs |-> {},              \* /upload: the blobs this request stored
   data |-> NoData,           \* submissionData / data
   job |-> NoJob,             \* the job addCvProcessingJob returned
   attempt |-> 1,             \* loop variable of the retry loop
   outs |-> <<>>,             \* the generative service's answers, one per invocation
   tailoredCvData |-> NoData,
   aiError |-> FALSE,         \* aiError !== null
   override |-> FALSE,        \* res.json wrapped by cacheMiddleware
   storeQ |-> 0,              \* store queries issued by this request
   fetched |-> "none",        \* outcome of the store query
   lacksText |-> FALSE,       \* the submission read has a null or empty text
   cacheOk |-> FALSE,         \* some Redis command of this request succeeded
   rendered |-> "none",       \* outcome of template + puppeteer
   status |-> 0, body |-> NoData, ctype |-> "none"]

\* res.status(status).json(body)
Respond(rq, status, body) ==
  [rq EXCEPT !.pc = "done", !.status = status, !.body = body,
             !.ctype = "application/json"]

\* A slot is free before its first request and once its response is sent (the
\* response stays visible until the next request takes the slot).
Idle(r) == req[r].pc \in {"idle", "done"}
\* A new request takes the first free slot.
Free(r) == Idle(r) /\ \A q \in Reqs : q < r => ~Idle(q)
At(r, kind, pc) == req[r].kind = kind /\ req[r].pc = pc

\* The id the store gives the next inserted row (uuid_generate_v4: fresh).
NextId == Cardinality({i \in IdSpace : store[i] # NoRow}) + 1

\* ----------------------------------------------------------- POST /upload
\* What a client can send: job_spec_text_input (absent, too short for
\* validateUpload, valid), the cv file (absent, over fileSizeLimits.cv, or
\* what the extractor makes of it), the job_spec file (absent, over fileSizeLimits.job_spec, or what the
\* extractor makes of it); and whether uploadFileWithRetry succeeds for the
\* CV and for the job spec.
UploadInputs ==
  [text : {Null, "short", "js"},
   cv : {"absent", "big", Null, "", "cv"},
   jobFile : {"absent", "big", Null, "js"},
   cvStored : BOOLEAN, jsStored : BOOLEAN]

\* job_spec_content || job_spec_file_text
JobSpecText(inp) ==
  IF ~Falsy(inp.text) THEN inp.text
  ELSE IF inp.jobFile = "absent" THEN Null ELSE inp.jobFile

\* handleValidationErrors and the handler up to the insert: the checks of the
\* CV, its extraction and storage, then the same for the job_spec file. None
\* of it touches the store, the cache or the queue. The request goes on to the
\* insert with the fields of the row in data.
UploadStart(inp) ==
  LET rq == [IdleReq EXCEPT !.kind = "upload"]
      rq1 == [rq EXCEPT !.blobs = {"cv"}]
      rq2 == [rq EXCEPT !.blobs = {"cv", "job_spec"}]
      row == NewRow(BadId, inp.cv, JobSpecText(inp))
  IN
  IF inp.text = "short" THEN Respond(rq, 400, ErrValidation)
  ELSE IF inp.cv = "absent" THEN Respond(rq, 400, ErrBody("CV file is required."))
  ELSE IF inp.cv = "big" THEN Respond(rq, 400, ErrBody("CV file too large."))
  ELSE IF inp.cv = Null
    THEN Respond(rq, 400, ErrBody("Unsupported CV file format or parsing failed."))
  ELSE IF ~inp.cvStored THEN Respond(rq, 500, ErrInternal)
  ELSE IF inp.jobFile = "absent" THEN [rq1 EXCEPT !.pc = "u_insert", !.data = row]
  ELSE IF inp.jobFile = "big"
    THEN Respond(rq1, 400, ErrBody("Job spec file too large."))
  ELSE IF inp.jobFile = Null
    THEN Respond(rq1, 400, ErrBody("Unsupported Job Spec file format or parsing failed."))
  ELSE IF ~inp.jsStored THEN Respond(rq1, 500, ErrInternal)
  ELSE [rq2 EXCEPT !.pc = "u_insert", !.data = row]

\* Outcomes of queryWithTimeout around the insert: the row comes back; the
\* store reports an error or the timer fires and the insert is lost; the timer
\* fires and the insert still reaches the store afterwards.
InsertOutcomes == {"ok", "error", "late"}

\* The store after the insert was attempted.
InsertEffect(st, id, row, outcome) ==
  IF outcome \in {"ok", "late"} THEN [st EXCEPT ![id] = row] ELSE st

\* An insert whose error is not thrown: the handler goes on in every case.
InsertGoesOn_Always(outcome) == TRUE

\* if (error) throw error / the timeout's reject: only a returned row goes on
\* to cacheSubmission, everything else lands in the catch block.
InsertGoesOn(outcome) == outcome = "ok"

\* The states in which a handler invocation can be after its start.
UploadStarts == {UploadStart(inp) : inp \in UploadInputs}

StartUpload(r) ==
  /\ Free(r)
  /\ \E rq \in UploadStarts : req' = [req EXCEPT ![r] = rq]
  /\ UNCHANGED <<store, subCache, respCache, redisUp, cvQueue>>
  /\ UNCHANGED <<queueVars, healthVars, auxVars>>

UploadInsert(r) ==
  /\ At(r, "upload", "u_insert")
  /\ \E outcome \in InsertOutcomes :
       LET id == NextId
           row == [req[r].data EXCEPT !.id = id]
           rq == [req[r] EXCEPT !.storeQ = @ + 1, !.fetched = outcome]
       IN
       /\ outcome \in {"ok", "late"} => id \in IdSpace
       /\ store' = IF id \in IdSpace THEN InsertEffect(store, id, row, outcome) ELSE store
       /\ req' = [req EXCEPT ![r] =
                    IF InsertGoesOn(outcome)
                      THEN [rq EXCEPT !.pc = "u_cache", !.id = id, !.data = row]
                      ELSE Respond(rq, 500, ErrInternal)]
  /\ UNCHANGED <<subCache, respCache, redisUp, cvQueue>>
  /\ UNCHANGED <<queueVars, healthVars, auxVars>>

\* await cacheUtils.cacheSubmission(id, row); res.status(200).json(...)
UploadCache(r) ==
  /\ At(r, "upload", "u_cache")
  /\ LET s == cacheSubmission(redisUp, req[r].id, req[r].data)
         rq == [req[r] EXCEPT !.cacheOk = @ \/ redisUp]
     IN IF s.threw
          THEN /\ req' = [req EXCEPT ![r] = Respond(rq, 500, ErrInternal)]
               /\ UNCHANGED subCache
          ELSE /\ subCache' = s.cache
               /\ req' = [req EXCEPT ![r] = Respond(rq, 200, UploadBody(<<rq.data>>))]
  /\ UNCHANGED <<store, respCache, redisUp, cvQueue>>
  /\ UNCHANGED <<queueVars, healthVars, auxVars>>

\* ------------------------------------------- POST /upload, from the wire
\* Requests in flight at the same time in this closer view, and /upload
\* requests followed in one behaviour.
MaxInFlight == 1
MaxUploads == 2

Pdf == "application/pdf"
Docx == "application/vnd.openxmlformats-officedocument.wordprocessingml.document"
\* No file in a field of the form.
NoFile == [nofile |-> TRUE]
\* No /upload request seen yet.
NoUpload == [noupload |-> TRUE]

\* Files a client can attach: declared media type, extension of the name,
\* size (within both limits, over fileSizeLimits.job_spec only, over the 5 MB
\* of multer's limits.fileSize), and what the bytes are: a document with text,
\* a document without any (a scan), bytes the parser rejects, other bytes.
File(mime, ext, size, content) ==
  [mime |-> mime, ext |-> ext, size |-> size, content |-> content]
CvFiles ==
  {File(Pdf, ".pdf", "ok", "text"), File(Pdf, ".pdf", "ok", "scan"),
   File(Docx, ".docx", "ok", "corrupt"), File("image/png", ".png", "ok", "binary"),
   File(Pdf, ".pdf", "over5", "text")}
JobSpecFiles ==
  {File(Docx, ".docx", "ok", "text"), File(Pdf, ".pdf", "ok", "corrupt"),
   File("text/plain", ".txt", "ok", "text"), File(Pdf, ".pdf", "over2", "text")}

\* The requests: a multipart form with its two file fields, or another body
\* (which carries no file); job_spec_text_input; whether uploadFileWithRetry
\* succeeds for the CV and for the job spec.
UploadRequests ==
  [multipart : {TRUE}, cv : CvFiles \cup {NoFile}, job_spec : JobSpecFiles \cup {NoFile},
   text : {Null, "short", "js"}, stored : {"both", "cvOnly", "neither"}]
  \cup [multipart : {FALSE}, cv : {NoFile}, job_spec : {NoFile},
        text : {Null, "short", "js"}, stored : {"both"}]

\* fileFilter: the declared type and the extension must both be allowed.
fileFilter(file) ==
  /\ file.mime \in {Pdf, Docx, "application/msword", "image/jpeg", "image/jpg", "image/png"}
  /\ file.ext \in {".pdf", ".docx", ".doc", ".jpg", ".jpeg", ".png"}

\* parsePdf / parseDocx: data.text, or null when the parser throws.
parsePdf(content, text) ==
  IF content = "text" THEN text ELSE IF content = "scan" THEN "" ELSE Null
parseDocx(content, text) == parsePdf(content, text)

\* The three branches on mimetype; every other type is read as UTF-8, which
\* gives a string for any bytes.
ExtractText(file, text) ==
  IF file.mime = Pdf THEN parsePdf(file.content, text)
  ELSE IF file.mime = Docx THEN parseDocx(file.content, text)
  ELSE IF file.content = "text" THEN text ELSE "bytes"

\* What the handler sees of a request that reached it.
HandlerInput(u) ==
  [text |-> u.text,
   cv |-> IF u.cv = NoFile THEN "absent"
          ELSE IF u.cv.size = "over5" THEN "big" ELSE ExtractText(u.cv, "cv"),
   jobFile |-> IF u.job_spec = NoFile THEN "absent"
               ELSE IF u.job_spec.size # "ok" THEN "big" ELSE ExtractText(u.job_spec, "js"),
   cvStored |-> u.stored # "neither", jsStored |-> u.stored = "both"]

\* const { cv, job_spec } = req.files on a request multer passed on untouched:
\* req.files is undefined, the TypeError lands in the catch block.
NoFiles(rq) == Respond(rq, 500, ErrInternal)

\* upload.fields(...) with fileFilter and limits (its errors are answered by
\* errorHandler), validateUpload / handleValidationErrors, then the handler up
\* to the insert.
ReceiveUpload(u) ==
  LET rq == [IdleReq EXCEPT !.kind = "upload"]
      files == {u.cv, u.job_spec} \ {NoFile}
  IN
  IF \E f \in files : ~fileFilter(f) THEN Respond(rq, 400, ErrBody("Invalid file type"))
  ELSE IF \E f \in files : f.size = "over5" THEN Respond(rq, 400, ErrBody("File too large"))
  ELSE IF u.text = "short" THEN Respond(rq, 400, ErrValidation)
  ELSE IF ~u.multipart THEN NoFiles(rq)
  ELSE UploadStart(HandlerInput(u))

InFlight == {q \in Reqs : ~Idle(q)}

StartUploadRequest(r) ==
  /\ Free(r)
  /\ Cardinality(InFlight) < MaxInFlight
  /\ upl.n < MaxUploads
  /\ \E u \in UploadRequests :
       /\ req' = [req EXCEPT ![r] = ReceiveUpload(u)]
       /\ upl' = [slot |-> r, sent |-> u, n |-> upl.n + 1]
  /\ UNCHANGED <<store, subCache, respCache, redisUp, cvQueue, doc, ret, lim, san, shut, rty, qto, brw>>
  /\ UNCHANGED <<queueVars, healthVars>>

\* -------------------------------------------------------- POST /tailor-cv
\* A handler that writes each phase into the row's status, whatever the status
\* was before.
TailorStoreWrite_Unguarded(st, id, phase) ==
  IF st[id] = NoRow THEN st ELSE [st EXCEPT ![id].status = phase]

\* The handler never writes cv_submissions: at the points where a job is
\* enqueued ("queued"), the generative call is made ("tailoring"), the PDF is
\* sent ("tailored") or the request fails ("failed") the store stays as it is.
TailorStoreWrite(st, id, phase) == st

\* .select('original_cv_text, job_spec_text').eq('id', submissionId).single()
TailorSelect(row) == TwoCol(row)

\* The check without its second operand: if (!originalCvContent)
MissingContent_CvOnly(data) == Falsy(data.original_cv_text)

\* if (!originalCvContent || !jobSpecContent)
MissingContent(data) == Falsy(data.original_cv_text) \/ Falsy(data.job_spec_text)

\* queueUtils.addCvProcessingJob: the data of the job added.
CvJob(id, data) == [submissionId |-> id]

\* What generateText can answer: text that JSON.parse rejects, text that parses
\* to an object (or another truthy value), text that parses to a falsy value
\* (null, false, 0, ""); or the call rejects.
GenTexts == {"malformed", "object", "falsy"}
GenOutcomes == GenTexts \cup {"throws"}

\* JSON.parse(tailoredCvJsonString)
ParseAiOutput(text) ==
  IF text = "malformed" THEN [threw |-> TRUE, val |-> NoData]
  ELSE IF text = "object" THEN [threw |-> FALSE, val |-> [cv |-> TRUE]]
  ELSE [threw |-> FALSE, val |-> NoData]

\* The loop bound off by one: attempt < 3.
LoopContinues_OffByOne(attempt) == attempt < MaxAttempts

\* attempt <= 3
LoopContinues(attempt) == attempt <= MaxAttempts

\* if (!tailoredCvData) return res.status(500)...; otherwise on to rendering.
AfterLoop(rq) ==
  IF rq.tailoredCvData = NoData
    THEN Respond(rq, 500, ErrAiFailed)
    ELSE [rq EXCEPT !.pc = "t_render"]

\* One pass of the loop body on the text the service returned.
LoopBody(rq, text) ==
  LET p == ParseAiOutput(text)
      rq1 == [rq EXCEPT !.outs = Append(@, text)]
  IN
  IF p.threw
    THEN LET rq2 == [rq1 EXCEPT !.aiError = TRUE, !.attempt = @ + 1] IN
         IF LoopContinues(rq2.attempt) THEN rq2 ELSE AfterLoop(rq2)
    ELSE AfterLoop([rq1 EXCEPT !.tailoredCvData = p.val, !.aiError = FALSE])

\* originalCvContent and jobSpecContent are taken from submissionData and go
\* into the prompt; submissionData and the record of how it was fetched are
\* not used after that.
Fetched(rq) ==
  [rq EXCEPT !.data = NoData, !.storeQ = 0, !.fetched = "none", !.cacheOk = FALSE]

\* The submission the handler works on, as read from the cache or the store.
WithSubmission(rq, data) ==
  [rq EXCEPT !.data = data,
             !.lacksText = data.original_cv_text \in {Null, ""}
                           \/ data.job_spec_text \in {Null, ""}]

\* A handler that reads the store whatever the cache gave.
NeedsFetch_Always(val) == TRUE

\* if (!submissionData): the store is read only when the cache gave nothing.
NeedsFetch(val) == val = NoData

\* A catch block that answers every error as "not found".
TailorCatch_NotFound(rq) == Respond(rq, 404, ErrBody("Submission not found."))

\* The catch block of the handler.
TailorCatch(rq) == Respond(rq, 500, ErrInternal)

\* Tailor requests that have not yet added their job.
BeforeEnqueue == {q \in Reqs : req[q].kind = "tailor" /\ req[q].pc # "done" /\ req[q].job = NoJob}

\* validateTailorCv / handleValidationErrors, then
\* await cacheUtils.getSubmission(submissionId).
StartTailor(r) ==
  /\ Free(r)
  /\ Len(cvQueue) + Cardinality(BeforeEnqueue) < MaxJobs
  /\ \E id \in IdSpace \cup {BadId} :
       LET rq == [IdleReq EXCEPT !.kind = "tailor", !.id = id] IN
       req' = [req EXCEPT ![r] =
                 IF id = BadId THEN Respond(rq, 400, ErrValidation)
                 ELSE LET g == getSubmission(redisUp, id)
                          rq1 == [rq EXCEPT !.cacheOk = @ \/ redisUp]
                      IN IF g.threw THEN TailorCatch(rq1)
                         ELSE IF NeedsFetch(g.val) THEN [rq1 EXCEPT !.pc = "t_fetch"]
                         ELSE IF g.val = NoData THEN TailorCatch(rq1)
                         ELSE [WithSubmission(rq1, g.val) EXCEPT !.pc = "t_enqueue"]]
  /\ UNCHANGED <<store, subCache, respCache, redisUp, cvQueue>>
  /\ UNCHANGED <<queueVars, healthVars, auxVars>>

\* Outcomes of queryWithTimeout around a select ... single(): the row; the
\* error single() reports when no row matches; a store error or a timeout.
SelectOutcomes(id) ==
  IF store[id] = NoRow THEN {"missing", "error"} ELSE {"ok", "error"}

TailorFetch(r) ==
  /\ At(r, "tailor", "t_fetch")
  /\ \E outcome \in SelectOutcomes(req[r].id) :
       LET rq == [req[r] EXCEPT !.storeQ = @ + 1, !.fetched = outcome] IN
       req' = [req EXCEPT ![r] =
                 IF outcome = "ok"
                   THEN [WithSubmission(rq, TailorSelect(store[rq.id]))
                           EXCEPT !.pc = "t_cacheset"]
                   ELSE TailorCatch(rq)]
  /\ UNCHANGED <<store, subCache, respCache, redisUp, cvQueue>>
  /\ UNCHANGED <<queueVars, healthVars, auxVars>>

TailorCacheSet(r) ==
  /\ At(r, "tailor", "t_cacheset")
  /\ LET s == cacheSubmission(redisUp, req[r].id, req[r].data)
         rq == [req[r] EXCEPT !.cacheOk = @ \/ redisUp]
     IN IF s.threw
          THEN /\ req' = [req EXCEPT ![r] = TailorCatch(rq)]
               /\ UNCHANGED subCache
          ELSE /\ subCache' = s.cache
               /\ req' = [req EXCEPT ![r] = [rq EXCEPT !.pc = "t_enqueue"]]
  /\ UNCHANGED <<store, respCache, redisUp, cvQueue>>
  /\ UNCHANGED <<queueVars, healthVars, auxVars>>

\* A handler that works on a submission only while no other /tailor-cv request
\* for the same id is past its enqueue.
TailorLock_PerId(r) ==
  \A q \in Reqs \ {r} :
    ~(req[q].kind = "tailor" /\ req[q].id = req[r].id
      /\ req[q].pc \in {"t_gen", "t_render"})

\* What the handler waits for before it works on submissionId: nothing. It
\* takes no lock and looks at no other request.
TailorLock(r) == TRUE

\* An add that puts the job in the queue twice.
cvProcessingQueue_add_Twice(queue, job) == Append(Append(queue, job), job)

\* cvProcessingQueue.add(data, opts): one job more, behind the waiting ones.
cvProcessingQueue_add(queue, job) == Append(queue, job)

\* The check of the two texts, then await queueUtils.addCvProcessingJob(...):
\* the add is a Redis command of the queue's connection and rejects when Redis
\* is unreachable.
TailorEnqueue(r) ==
  /\ At(r, "tailor", "t_enqueue")
  /\ TailorLock(r)
  /\ IF MissingContent(req[r].data)
       THEN /\ req' = [req EXCEPT ![r] = Respond(@, 400, ErrMissingContent)]
            /\ UNCHANGED <<store, cvQueue>>
       ELSE IF redisUp
         THEN /\ cvQueue' = cvProcessingQueue_add(cvQueue, CvJob(req[r].id, req[r].data))
              /\ store' = TailorStoreWrite(store, req[r].id, "queued")
              /\ req' = [req EXCEPT ![r] =
                           [Fetched(@) EXCEPT !.job = CvJob(req[r].id, req[r].data),
                                              !.pc = "t_gen"]]
         ELSE /\ req' = [req EXCEPT ![r] = TailorCatch(@)]
              /\ store' = TailorStoreWrite(store, req[r].id, "failed")
              /\ UNCHANGED cvQueue
  /\ UNCHANGED <<subCache, respCache, redisUp>>
  /\ UNCHANGED <<queueVars, healthVars, auxVars>>

\* One iteration of the retry loop: await generateText(...), then JSON.parse.
TailorGenerate(r) ==
  /\ At(r, "tailor", "t_gen")
  /\ TailorLock(r)
  /\ LoopContinues(req[r].attempt)
  /\ \E o \in GenOutcomes :
       LET rq == IF o = "throws"
                   THEN TailorCatch([req[r] EXCEPT !.outs = Append(@, o)])
                   ELSE LoopBody(req[r], o)
       IN /\ req' = [req EXCEPT ![r] = rq]
          /\ store' = TailorStoreWrite(store, req[r].id,
                                       IF rq.pc = "done" THEN "failed" ELSE "tailoring")
  /\ UNCHANGED <<subCache, respCache, redisUp, cvQueue>>
  /\ UNCHANGED <<queueVars, healthVars, auxVars>>

\* What the handler awaits or calls, in order, between the parse and the
\* response; each of them can throw.
RenderSteps ==
  <<"readFile", "compile", "template", "launch", "newPage", "setContent", "pdf", "close">>

\* A handler that sends the buffer as soon as page.pdf returned it, before
\* browser.close().
SendsPdf_BeforeClose(failAt) == failAt = 0 \/ RenderSteps[failAt] = "close"

\* res.setHeader / res.send(pdfBuffer) come after the last step: they are
\* reached only when no step threw (failAt = 0).
SendsPdf(failAt) == failAt = 0

\* Normalization, Handlebars, puppeteer; then res.send(pdfBuffer), or the
\* catch block when the step failAt throws.
TailorRender(r) ==
  /\ At(r, "tailor", "t_render")
  /\ \E failAt \in 0..Len(RenderSteps) :
       LET rendered == IF failAt = 0 THEN "ok" ELSE "fail" IN
       /\ req' = [req EXCEPT ![r] =
                    IF SendsPdf(failAt)
                      THEN [@ EXCEPT !.pc = "done", !.rendered = rendered, !.status = 200,
                                     !.body = PdfBody, !.ctype = "application/pdf"]
                      ELSE TailorCatch([@ EXCEPT !.rendered = rendered])]
       /\ store' = TailorStoreWrite(store, req[r].id,
                                    IF SendsPdf(failAt) THEN "tailored" ELSE "failed")
  /\ UNCHANGED <<subCache, respCache, redisUp, cvQueue>>
  /\ UNCHANGED <<queueVars, healthVars, auxVars>>

\* ---------------------------------------------------- GET /submission/:id
\* A select of the two text columns only.
GetSelect_TwoCol(row) == TwoCol(row)

\* .select('*').eq('id', id).single()
GetSelect(row) == row

\* cacheMiddleware(1800) in front of the handler.
StartGet(r) ==
  /\ Free(r)
  /\ \E id \in IdSpace :
       LET m == cacheMiddleware(redisUp, respCache[id])
           rq == [IdleReq EXCEPT !.kind = "get", !.id = id, !.cacheOk = redisUp]
       IN req' = [req EXCEPT ![r] =
                    IF m.next = "respond" THEN Respond(rq, 200, m.body)
                    ELSE IF m.next = "handler"
                      THEN [rq EXCEPT !.override = m.override, !.pc = "g_cacheget"]
                    ELSE Respond(rq, 500, ErrInternal)]
  /\ UNCHANGED <<store, subCache, respCache, redisUp, cvQueue>>
  /\ UNCHANGED <<queueVars, healthVars, auxVars>>

\* The client of an /upload answered with 200 asks for the submission whose id
\* the response carried.
GetUploaded(r) ==
  /\ Cardinality(InFlight) < MaxInFlight
  /\ upl.sent # NoUpload
  /\ req[upl.slot].kind = "upload" /\ req[upl.slot].status = 200
  /\ StartGet(r)
  /\ req'[r].id = req[upl.slot].body.data[1].id

\* The handler's res.status(status).json(body): through the wrapper that
\* cacheMiddleware installed, when it installed one.
GetRespond(r, rq, status, body) ==
  /\ req' = [req EXCEPT ![r] =
               Respond([rq EXCEPT !.cacheOk = @ \/ (rq.override /\ redisUp)],
                       status, body)]
  /\ respCache' = res_json(redisUp, respCache, rq.override, rq.id, body)

GetCacheGet(r) ==
  /\ At(r, "get", "g_cacheget")
  /\ LET g == getSubmission(redisUp, req[r].id)
         rq == [req[r] EXCEPT !.cacheOk = @ \/ redisUp]
     IN IF g.threw THEN GetRespond(r, rq, 500, ErrInternal)
        ELSE IF NeedsFetch(g.val)
          THEN /\ req' = [req EXCEPT ![r] = [rq EXCEPT !.pc = "g_fetch"]]
               /\ UNCHANGED respCache
        ELSE GetRespond(r, [rq EXCEPT !.data = g.val], 200, g.val)
  /\ UNCHANGED <<store, subCache, redisUp, cvQueue>>
  /\ UNCHANGED <<queueVars, healthVars, auxVars>>

GetFetch(r) ==
  /\ At(r, "get", "g_fetch")
  /\ \E outcome \in SelectOutcomes(req[r].id) :
       LET rq == [req[r] EXCEPT !.storeQ = @ + 1, !.fetched = outcome] IN
       IF outcome = "ok"
         THEN /\ req' = [req EXCEPT ![r] =
                           [rq EXCEPT !.data = GetSelect(store[rq.id]), !.pc = "g_cacheset"]]
              /\ UNCHANGED respCache
         ELSE GetRespond(r, rq, 500, ErrInternal)
  /\ UNCHANGED <<store, subCache, redisUp, cvQueue>>
  /\ UNCHANGED <<queueVars, healthVars, auxVars>>

GetCacheSet(r) ==
  /\ At(r, "get", "g_cacheset")
  /\ LET s == cacheSubmission(redisUp, req[r].id, req[r].data)
         rq == [req[r] EXCEPT !.cacheOk = @ \/ redisUp]
     IN IF s.threw
          THEN /\ GetRespond(r, rq, 500, ErrInternal)
               /\ UNCHANGED subCache
          ELSE /\ subCache' = s.cache
               /\ GetRespond(r, rq, 200, rq.data)
  /\ UNCHANGED <<store, redisUp, cvQueue>>
  /\ UNCHANGED <<queueVars, healthVars, auxVars>>

\* ------------------------------- skills normalization and cv_template.html
\* Length of the skills strings tried.
MaxSkillLen == 4

\* A JavaScript string of the parsed data is a sequence of characters, an array
\* a sequence of values; typeof tells them apart.
Str(chars) == [str |-> chars]
List(items) == [list |-> items]
IsString(v) == "str" \in DOMAIN v

RECURSIVE Strings(_)
Strings(n) ==
  IF n = 0 THEN {<<>>}
  ELSE LET S == Strings(n - 1) IN S \cup {Append(x, c) : x \in S, c \in {"a", "b", " ", ","}}

\* What the generative service can put in technical_skills: a string, an array
\* (of trimmed or untrimmed or empty strings), or nothing.
SkillValues ==
  {Str(x) : x \in Strings(MaxSkillLen)}
    \cup {List(<<>>), List(<< <<"a">> >>), List(<< <<" ", "a">>, <<>> >>), NoData}

\* The parsed objects: soft_skills from a few of the same values, the optional
\* links absent, empty or present.
CvData ==
  [full_name : {"Ada"},
   technical_skills : SkillValues,
   soft_skills : {Str(<<>>), Str(<<"a", ",", " ", "a">>), List(<<>>), List(<< <<"a">> >>), NoData},
   linkedin_url : {Null, "https://l"},
   portfolio_github_url : {Null, "", "https://p"}]

\* String.prototype.split(sep) for a one-character separator.
RECURSIVE Split(_, _)
Split(x, sep) ==
  IF x = <<>> THEN << <<>> >>
  ELSE LET rest == Split(Tail(x), sep) IN
       IF Head(x) = sep THEN << <<>> >> \o rest
       ELSE << <<Head(x)>> \o Head(rest) >> \o Tail(rest)

\* String.prototype.trim
RECURSIVE Trim(_)
Trim(x) ==
  IF x = <<>> THEN x
  ELSE IF Head(x) = " " THEN Trim(Tail(x))
  ELSE IF x[Len(x)] = " " THEN Trim(SubSeq(x, 1, Len(x) - 1))
  ELSE x

\* A filter that keeps every part.
Boolean_KeepAll(part) == TRUE

\* Boolean(part) for a string: false for the empty string only.
Boolean(part) == part # <<>>

\* if (typeof v === 'string') v = v.split(',').map(s => s.trim()).filter(Boolean)
NormalizeSkills(v) ==
  IF IsString(v)
    THEN LET parts == Split(v.str, ",") IN
         List(SelectSeq([i \in 1..Len(parts) |-> Trim(parts[i])], Boolean))
    ELSE v

\* Handlebars {{#if v}} on a skills value: false for undefined, "" and the
\* empty array.
HbsIf(v) ==
  IF v = NoData THEN FALSE
  ELSE IF IsString(v) THEN v.str # <<>> ELSE v.list # <<>>

\* Handlebars {{#if url}} on a text field: false for null and "".
HbsIfText(url) == url \notin {Null, ""}

El(el, text) == [el |-> el, text |-> text]

\* {{#if skills}} <div><span class="skills-category">label</span>
\*   <ul class="skills-list"> {{#each skills}}<li>{{this}}</li>{{/each}} </ul></div> {{/if}}
SkillsBlock(label, skills) ==
  IF HbsIf(skills)
    THEN <<El("skills-category", label), El("ul", "skills-list")>>
           \o (IF IsString(skills) THEN <<>>
               ELSE [i \in 1..Len(skills.list) |-> El("li", skills.list[i])])
    ELSE <<>>

\* cv_template.html applied to the data: the elements it emits for the name,
\* the two optional links and the Skills section, in order (the summary,
\* education and experience sections do not depend on these fields).
cv_template(d) ==
  <<El("h1", d.full_name)>>
    \o (IF HbsIfText(d.linkedin_url) THEN <<El("a", d.linkedin_url)>> ELSE <<>>)
    \o (IF HbsIfText(d.portfolio_github_url) THEN <<El("a", d.portfolio_github_url)>> ELSE <<>>)
    \o <<El("section-title", "Skills")>>
    \o SkillsBlock("Technical Skills:", d.technical_skills)
    \o SkillsBlock("Soft Skills:", d.soft_skills)

\* tailoredCvData = JSON.parse(tailoredCvJsonString)
ParseCv ==
  /\ doc.stage = "none"
  /\ \E d \in CvData : doc' = [doc EXCEPT !.stage = "parsed", !.raw = d, !.data = d]
  /\ UNCHANGED <<upl, ret, lim, san, shut, rty, qto, brw>>
  /\ UNCHANGED <<mainVars, queueVars, healthVars>>

\* The two if statements that normalize the skills.
Normalize ==
  /\ doc.stage = "parsed"
  /\ doc' = [doc EXCEPT !.stage = "normalized",
                        !.data.technical_skills = NormalizeSkills(@),
                        !.data.soft_skills = NormalizeSkills(@)]
  /\ UNCHANGED <<upl, ret, lim, san, shut, rty, qto, brw>>
  /\ UNCHANGED <<mainVars, queueVars, healthVars>>

\* const renderedHtml = template(tailoredCvData)
RenderHtml ==
  /\ doc.stage = "normalized"
  /\ doc' = [doc EXCEPT !.stage = "rendered", !.html = cv_template(doc.data)]
  /\ UNCHANGED <<upl, ret, lim, san, shut, rty, qto, brw>>
  /\ UNCHANGED <<mainVars, queueVars, healthVars>>

NextRender == ParseCv \/ Normalize \/ RenderHtml

\* ------------------------------------------------------------ environment
\* The TTL of a submission:<id> key runs out.
ExpireSubmission(id) ==
  /\ subCache[id] # Nil
  /\ subCache' = [subCache EXCEPT ![id] = Nil]
  /\ UNCHANGED <<store, respCache, redisUp, cvQueue, req>>
  /\ UNCHANGED <<queueVars, healthVars, auxVars>>

\* The TTL of a cache:<url> key runs out.
ExpireResponse(id) ==
  /\ respCache[id] # Nil
  /\ respCache' = [respCache EXCEPT ![id] = Nil]
  /\ UNCHANGED <<store, subCache, redisUp, cvQueue, req>>
  /\ UNCHANGED <<queueVars, healthVars, auxVars>>

RedisFails ==
  /\ redisUp
  /\ redisUp' = FALSE
  /\ UNCHANGED <<store, subCache, respCache, cvQueue, req>>
  /\ UNCHANGED <<queueVars, healthVars, auxVars>>

RedisRecovers ==
  /\ ~redisUp
  /\ redisUp' = TRUE
  /\ UNCHANGED <<store, subCache, respCache, cvQueue, req>>
  /\ UNCHANGED <<queueVars, healthVars, auxVars>>

\* A worker takes the oldest waiting cv-processing job.
TakeCvJob ==
  /\ cvQueue # <<>>
  /\ cvQueue' = Tail(cvQueue)
  /\ UNCHANGED <<store, subCache, respCache, redisUp, req>>
  /\ UNCHANGED <<queueVars, healthVars, auxVars>>

\* ------------------------------------------------- job queues (queue.js)
\* Number of jobs added to the three queues together.
MaxQJobs == 3
\* Number of handler executions that throw, and of stalls, over all jobs.
MaxThrows == 4
MaxStalls == 2
\* Number of occurrences of the repeatable cleanup job.
MaxCleanups == 1

\* defaultJobOptions.attempts
Attempts == 3
\* defaultJobOptions.backoff.delay (ms), type 'exponential'
BackoffDelay == 2000
\* No settings are passed to the queues: a stalled job is processed again
\* once (Bull's maxStalledCount), a job that stalls more often is failed.
MaxStalledCount == 1

Queues == {"cv-processing", "pdf-generation", "cleanup"}
JobIds == 1..MaxQJobs

\* Backoff of type 'fixed': the same delay before every retry.
Backoff_Fixed(attemptsMade) == BackoffDelay

\* Bull's exponential backoff: the delay before the next attempt after
\* attemptsMade failed ones.
Backoff(attemptsMade) == (2 ^ attemptsMade - 1) * BackoffDelay

\* queue.add(data, opts): a waiting job with the queue's default options.
\* parent is the cv-processing job whose handler added it (0: none).
NewJob(queue, parent) ==
  [queue |-> queue, parent |-> parent, state |-> "waiting",
   attemptsMade |-> 0, stalledCount |-> 0,
   runs |-> <<>>,        \* how each execution of the handler ended
   delays |-> <<>>,      \* the backoff delay before each retry
   phase |-> "none"]     \* position of the running handler

Added == DOMAIN qjobs
JobsIn(queue, state) == {j \in Added : qjobs[j].queue = queue /\ qjobs[j].state = state}
Terminal(j) == j \in Added /\ qjobs[j].state \in {"completed", "failed"}

RECURSIVE SumOver(_, _)
SumOver(jobs, field) ==
  IF jobs = <<>> THEN 0 ELSE Head(jobs)[field] + SumOver(Tail(jobs), field)
Throws == SumOver(qjobs, "attemptsMade")
Stalls == SumOver(qjobs, "stalledCount")

\* A handler that throws takes the worker loop down with it.
WorkerSurvives_CrashOnFail(outcome) == outcome # "failed"

\* The processor's promise is awaited by Bull and its rejection recorded on
\* the job; an 'error' listener is installed on every queue: the worker loop
\* goes on whatever the outcome of a job.
WorkerSurvives(outcome) == TRUE

\* Retries that never stop: the job is delayed again after every failure.
MoveToFailed_NoLimit(job) ==
  [job EXCEPT !.attemptsMade = @ + 1, !.state = "delayed", !.phase = "none",
              !.runs = Append(@, "throw"),
              !.delays = Append(@, Backoff(job.attemptsMade + 1))]

\* The handler threw: the attempt is counted; below attempts the job is
\* delayed by the backoff, otherwise it is failed.
MoveToFailed(job) ==
  LET made == job.attemptsMade + 1
      j1 == [job EXCEPT !.attemptsMade = made, !.phase = "none",
                        !.runs = Append(@, "throw")]
  IN IF made < Attempts
       THEN [j1 EXCEPT !.state = "delayed", !.delays = Append(@, Backoff(made))]
       ELSE [j1 EXCEPT !.state = "failed"]

\* The handler returned.
MoveToCompleted(job) ==
  [job EXCEPT !.state = "completed", !.phase = "none", !.runs = Append(@, "ok")]

\* The lock of an active job ran out (the worker died or lost Redis while the
\* job ran): the job goes back to waiting, or is failed once it stalled more
\* than MaxStalledCount times. attemptsMade is not touched.
MoveStalled(job) ==
  LET n == job.stalledCount + 1
      j1 == [job EXCEPT !.stalledCount = n, !.phase = "none",
                        !.runs = Append(@, "stall")]
  IN IF n > MaxStalledCount
       THEN [j1 EXCEPT !.state = "failed"]
       ELSE [j1 EXCEPT !.state = "waiting"]

\* queueUtils.addCvProcessingJob
AddCvProcessingJob ==
  /\ Len(qjobs) < MaxQJobs
  /\ qjobs' = Append(qjobs, NewJob("cv-processing", 0))
  /\ UNCHANGED <<workerUp, mainVars, healthVars, auxVars>>

\* queueUtils.scheduleCleanup: the repeatable job comes due.
ScheduleCleanup ==
  /\ Len(qjobs) < MaxQJobs
  /\ Cardinality({j \in Added : qjobs[j].queue = "cleanup"}) < MaxCleanups
  /\ qjobs' = Append(qjobs, NewJob("cleanup", 0))
  /\ UNCHANGED <<workerUp, mainVars, healthVars, auxVars>>

\* The worker of the job's queue (concurrency 1) picks the job up.
StartJob(j) ==
  /\ j \in Added
  /\ qjobs[j].state = "waiting"
  /\ workerUp[qjobs[j].queue]
  /\ JobsIn(qjobs[j].queue, "active") = {}
  /\ qjobs' = [qjobs EXCEPT ![j].state = "active", ![j].phase = "handler"]
  /\ UNCHANGED <<workerUp, mainVars, healthVars, auxVars>>

\* cvProcessingQueue.process, after its wait: await pdfGenerationQueue.add(...).
\* Every execution that gets here adds a job (no jobId is given). A job added
\* beyond MaxQJobs is not followed by the model.
CvHandlerAdd(j) ==
  /\ j \in Added
  /\ qjobs[j].queue = "cv-processing"
  /\ qjobs[j].state = "active" /\ qjobs[j].phase = "handler"
  /\ LET run == [qjobs EXCEPT ![j].phase = "return"] IN
     qjobs' = IF Len(qjobs) < MaxQJobs
                THEN Append(run, NewJob("pdf-generation", j))
                ELSE run
  /\ UNCHANGED <<workerUp, mainVars, healthVars, auxVars>>

\* A handler that can return before its add.
AboutToReturn_Early(job) == TRUE

\* The handler of a cv-processing job is about to return once the add is done;
\* the other two handlers only wait.
AboutToReturn(job) == job.queue = "cv-processing" => job.phase = "return"

\* return { status: 'completed', ... }
JobReturns(j) ==
  /\ j \in Added
  /\ qjobs[j].state = "active" /\ AboutToReturn(qjobs[j])
  /\ qjobs' = [qjobs EXCEPT ![j] = MoveToCompleted(@)]
  /\ workerUp' = [workerUp EXCEPT ![qjobs[j].queue] = WorkerSurvives("completed")]
  /\ UNCHANGED <<mainVars, healthVars, auxVars>>

\* catch (error) { ...; throw error; }: for a cv-processing job the add rejected.
JobThrows(j) ==
  /\ j \in Added
  /\ qjobs[j].state = "active" /\ qjobs[j].phase = "handler"
  /\ Throws < MaxThrows
  /\ qjobs' = [qjobs EXCEPT ![j] = MoveToFailed(@)]
  /\ workerUp' = [workerUp EXCEPT ![qjobs[j].queue] = WorkerSurvives(qjobs'[j].state)]
  /\ UNCHANGED <<mainVars, healthVars, auxVars>>

\* The backoff delay of a delayed job has passed.
PromoteDelayed(j) ==
  /\ j \in Added
  /\ qjobs[j].state = "delayed"
  /\ qjobs' = [qjobs EXCEPT ![j].state = "waiting"]
  /\ UNCHANGED <<workerUp, mainVars, healthVars, auxVars>>

\* queue.on('stalled', ...): an active job is found without its lock.
JobStalls(j) ==
  /\ j \in Added
  /\ qjobs[j].state = "active"
  /\ Stalls < MaxStalls
  /\ qjobs' = [qjobs EXCEPT ![j] = MoveStalled(@)]
  /\ UNCHANGED <<workerUp, mainVars, healthVars, auxVars>>

\* What the worker loops do for job j (everything but a stall).
Progress(j) ==
  StartJob(j) \/ CvHandlerAdd(j) \/ JobReturns(j) \/ JobThrows(j) \/ PromoteDelayed(j)

\* --------------------------------------------- retention of finished jobs
\* defaultJobOptions.removeOnComplete and removeOnFail of queueConfig.
RemoveOnComplete == 100
RemoveOnFail == 50

\* Jobs that finish beyond each retention limit.
MaxExtra == 2

\* A list cut from the wrong end.
KeepLatest_DropNewest(list, keep) ==
  IF Len(list) > keep THEN SubSeq(list, 1, keep) ELSE list

\* Bull with a number for removeOnComplete / removeOnFail: the finished set,
\* ordered by finish time, is cut to its latest `keep` entries.
KeepLatest(list, keep) ==
  IF Len(list) > keep THEN SubSeq(list, Len(list) - keep + 1, Len(list)) ELSE list

\* The queues are separate sets in Redis with the same options: one of them is
\* followed, whichever finishes a job first.
Follows(q) == ret.queue \in {"none", q}

\* A job of queue q completes: it joins the completed set as its latest entry
\* (entries are numbered in order of completion).
JobCompletes(q) ==
  /\ Follows(q)
  /\ ret.nCompleted < RemoveOnComplete + MaxExtra
  /\ ret' = [ret EXCEPT !.queue = q,
                        !.nCompleted = @ + 1,
                        !.completed = KeepLatest(Append(@, ret.nCompleted + 1),
                                                 RemoveOnComplete)]
  /\ UNCHANGED <<upl, doc, lim, san, shut, rty, qto, brw>>
  /\ UNCHANGED <<mainVars, queueVars, healthVars>>

\* A job of queue q fails for good (attempts used up, or stalled too often).
JobFails(q) ==
  /\ Follows(q)
  /\ ret.nFailed < RemoveOnFail + MaxExtra
  /\ ret' = [ret EXCEPT !.queue = q,
                        !.nFailed = @ + 1,
                        !.failed = KeepLatest(Append(@, ret.nFailed + 1), RemoveOnFail)]
  /\ UNCHANGED <<upl, doc, lim, san, shut, rty, qto, brw>>
  /\ UNCHANGED <<mainVars, queueVars, healthVars>>

NextRetention == \E q \in Queues : JobCompletes(q) \/ JobFails(q)

NextQueue ==
  \/ AddCvProcessingJob
  \/ ScheduleCleanup
  \/ \E j \in JobIds : StartJob(j)
  \/ \E j \in JobIds : CvHandlerAdd(j)
  \/ \E j \in JobIds : JobReturns(j)
  \/ \E j \in JobIds : JobThrows(j)
  \/ \E j \in JobIds : PromoteDelayed(j)
  \/ \E j \in JobIds : JobStalls(j)

\* --------------------------------------------- health (middleware/health.js)
\* Number of responses the counters are followed for.
MaxResponses == 3
\* setInterval(..., 5 * 60 * 1000): the period of the timer, in minutes.
HealthIntervalMinutes == 5

CheckNames == {"basic", "database", "redis", "queue", "system"}
NoReport == [threw |-> FALSE, status |-> "none", checks |-> [n \in CheckNames |-> "none"]]

\* basicHealth
basicHealth == "healthy"
\* databaseHealth: result.healthy ? 'healthy' : 'unhealthy'; 'unhealthy' in its
\* catch block.
databaseHealth(healthy) == IF healthy THEN "healthy" ELSE "unhealthy"
\* redisHealth over checkRedisHealth (redis.ping()).
redisHealth(up) == IF up THEN "healthy" ELSE "unhealthy"
\* queueHealth: 'healthy' when getQueueStats resolves, 'unhealthy' in its catch
\* block; the queues' commands go to the same Redis.
queueHealth(up) == IF up THEN "healthy" ELSE "unhealthy"
\* systemHealth: memoryHealthy && cpuHealthy ? 'healthy' : 'warning'
systemHealth(withinThresholds) == IF withinThresholds THEN "healthy" ELSE "warning"

\* ...check.value || { status: 'error', error: check.reason?.message }
Settled(rejected, status) == IF rejected THEN "error" ELSE status

\* The five results of Promise.allSettled. Four checks catch what they await;
\* systemHealth calls healthMetrics.getMetrics() outside any try block and is
\* rejected when that throws.
Results(conds, up, sysRejected) ==
  [n \in CheckNames |->
     IF n = "basic" THEN Settled(FALSE, basicHealth)
     ELSE IF n = "database" THEN Settled(FALSE, databaseHealth(conds.database))
     ELSE IF n = "redis" THEN Settled(FALSE, redisHealth(up))
     ELSE IF n = "queue" THEN Settled(FALSE, queueHealth(up))
     ELSE Settled(sysRejected, systemHealth(conds.system))]

\* allHealthy ? 'healthy' : (hasWarnings ? 'warning' : 'unhealthy')
CompositeStatus(results) ==
  LET allHealthy == \A n \in CheckNames : results[n] = "healthy"
      hasWarnings == \E n \in CheckNames : results[n] = "warning"
  IN IF allHealthy THEN "healthy" ELSE IF hasWarnings THEN "warning" ELSE "unhealthy"

\* comprehensiveHealth: the report, or a rejection when the getMetrics() call
\* that builds the report throws.
comprehensiveHealth(conds, up, sysRejected, metricsThrows) ==
  IF metricsThrows THEN [NoReport EXCEPT !.threw = TRUE]
  ELSE LET results == Results(conds, up, sysRejected) IN
       [threw |-> FALSE, status |-> CompositeStatus(results), checks |-> results]

\* An endpoint that answers 503 to everything but 'healthy'.
StatusCode_HealthyOnly(status) == IF status = "healthy" THEN 200 ELSE 503

\* health.status === 'healthy' ? 200 : health.status === 'warning' ? 200 : 503
StatusCode(status) ==
  IF status = "healthy" THEN 200 ELSE IF status = "warning" THEN 200 ELSE 503

\* healthMetrics.recordRequest
recordRequest(m) == [m EXCEPT !.requestCount = @ + 1]
\* healthMetrics.recordError
recordError(m) == [m EXCEPT !.errorCount = @ + 1]

\* The res.json that healthCheckMiddleware installs: recordRequest, then
\* recordError if (res.statusCode >= 400).
WrappedJson(m, statusCode) ==
  IF statusCode >= 400 THEN recordError(recordRequest(m)) ELSE recordRequest(m)

\* A response leaves the server: counted here for comparison with the counters.
Sent(m, statusCode) ==
  [m EXCEPT !.responses = @ + 1,
            !.errorResponses = IF statusCode >= 400 THEN @ + 1 ELSE @]

\* The ways a request is answered:
\*  "json"      a handler calls res.status(code).json(body), or res.json(body);
\*  "pdf"       /tailor-cv calls res.send(pdfBuffer): a Buffer is written by
\*              res.send itself and does not go through res.json;
\*  "bodyError" express.json() rejects the body before healthCheckMiddleware
\*              has run, and errorHandler answers with the res.json that was
\*              never wrapped.
Answers ==
  {[via |-> "json", code |-> c] : c \in {200, 400, 404, 500}}
    \cup {[via |-> "pdf", code |-> 200], [via |-> "bodyError", code |-> 500]}

\* What the response does to healthMetrics.
Counted(m, answer) ==
  IF answer.via = "json" THEN WrappedJson(m, answer.code) ELSE m

\* A timer whose callback lets the exception escape.
TimerSurvives_Unhandled(report) == ~report.threw

\* The callback of setInterval is one try/catch: the timer stays set whatever
\* a firing did.
TimerSurvives(report) == TRUE

\* logger.warn when health.status !== 'healthy'; logger.error in the catch.
TimerLog(report) ==
  IF report.threw THEN "error"
  ELSE IF report.status # "healthy" THEN "warn" ELSE "none"

\* The database or the machine's load changes.
ConditionsChange ==
  /\ \E c \in {"database", "system"} : checks' = [checks EXCEPT ![c] = ~@]
  /\ UNCHANGED <<health, metrics>>
  /\ UNCHANGED <<mainVars, queueVars, auxVars>>

\* GET /health/comprehensive
GetHealthComprehensive ==
  /\ metrics.responses < MaxResponses
  /\ \E sysRejected \in BOOLEAN, metricsThrows \in BOOLEAN :
       LET report == comprehensiveHealth(checks, redisUp, sysRejected, metricsThrows)
           statusCode == IF report.threw THEN 503 ELSE StatusCode(report.status)
       IN /\ health' = [health EXCEPT !.report = report, !.statusCode = statusCode]
          /\ metrics' = Sent(WrappedJson(metrics, statusCode), statusCode)
  /\ UNCHANGED checks
  /\ UNCHANGED <<mainVars, queueVars, auxVars>>

\* Any other request, from healthCheckMiddleware to its response.
HandleRequest ==
  /\ metrics.responses < MaxResponses
  /\ \E answer \in Answers :
       metrics' = Sent(Counted(metrics, answer), answer.code)
  /\ UNCHANGED <<checks, health>>
  /\ UNCHANGED <<mainVars, queueVars, auxVars>>

\* A minute passes; the timer fires when its period has.
Tick ==
  /\ health.elapsed < HealthIntervalMinutes
  /\ health' = [health EXCEPT !.elapsed = @ + 1]
  /\ UNCHANGED <<checks, metrics>>
  /\ UNCHANGED <<mainVars, queueVars, auxVars>>

\* The callback of scheduleHealthChecks.
TimerFires ==
  /\ health.armed
  /\ health.elapsed = HealthIntervalMinutes
  /\ \E sysRejected \in BOOLEAN, metricsThrows \in BOOLEAN :
       LET report == comprehensiveHealth(checks, redisUp, sysRejected, metricsThrows) IN
       health' = [health EXCEPT !.elapsed = 0,
                                !.fired = report,
                                !.log = TimerLog(report),
                                !.armed = TimerSurvives(report)]
  /\ UNCHANGED <<checks, metrics>>
  /\ UNCHANGED <<mainVars, queueVars, auxVars>>

NextHealth ==
  \/ ConditionsChange
  \/ RedisFails
  \/ RedisRecovers
  \/ GetHealthComprehensive
  \/ HandleRequest
  \/ Tick
  \/ TimerFires

\* ------------------------------------- rate limiting (security.js, cluster.js)
\* Worker processes forked by cluster.js (os.cpus().length of them).
NumCPUs == 2

\* Requests a worker still sees after its limit is reached.
MaxOverLimit == 1

\* max of uploadLimiter and of tailorLimiter.
UploadMax == 10
TailorMax == 5

Workers == 1..NumCPUs
LimitedRoutes == {"upload", "tailor"}
NoAnswer == [none |-> TRUE]

\* createRateLimiter(windowMs, max, message): the limit and the 429 body.
LimiterMax(route) == IF route = "upload" THEN UploadMax ELSE TailorMax
LimiterMessage(route) ==
  IF route = "upload" THEN ErrBody("Too many upload requests. Please try again later.")
  ELSE ErrBody("Too many CV tailoring requests. Please try again later.")

\* rateLimit({windowMs, max, ...}) without a store option: the hits are kept in
\* the memory of the process that runs the middleware. A request of the client
\* lands on worker w; the worker counts it and lets it through up to max.
LimitedRequest(w, route) ==
  LET hits == lim.hits[w][route] + 1
      passes == hits <= LimiterMax(route)
  IN /\ hits <= LimiterMax(route) + MaxOverLimit
     /\ lim' = [lim EXCEPT !.hits[w][route] = hits,
                           !.reached[route] = IF passes THEN @ + 1 ELSE @,
                           !.last = [route |-> route,
                                     status |-> IF passes THEN 0 ELSE 429,
                                     body |-> IF passes THEN NoData
                                              ELSE LimiterMessage(route)]]
     /\ UNCHANGED <<upl, doc, ret, san, shut, rty, qto, brw>>
     /\ UNCHANGED <<mainVars, queueVars, healthVars>>

\* windowMs (15 minutes) passes: every worker's store has dropped its counts.
\* reached counts the requests of the window that now begins.
WindowEnds ==
  /\ \E w \in Workers : \E r \in LimitedRoutes : lim.hits[w][r] > 0
  /\ lim' = [lim EXCEPT !.hits = [w \in Workers |-> [r \in LimitedRoutes |-> 0]],
                        !.reached = [r \in LimitedRoutes |-> 0],
                        !.last = NoAnswer]
  /\ UNCHANGED <<upl, doc, ret, san, shut, rty, qto, brw>>
  /\ UNCHANGED <<mainVars, queueVars, healthVars>>

NextLimit ==
  \/ \E w \in Workers : \E route \in LimitedRoutes : LimitedRequest(w, route)
  \/ WindowEnds

\* ------------------------------------------- sanitizeRequest and file names
\* Length of the file names tried.
MaxNameLen == 3

\* File names as the client writes them in the multipart headers: sequences
\* over a letter, the dot, the slash and the space.
RECURSIVE Names(_)
Names(n) ==
  IF n = 0 THEN {}
  ELSE Names(n - 1) \cup
       {Append(x, c) : x \in Names(n - 1) \cup {<<>>}, c \in {"a", ".", "/", " "}}

\* The two parts of a request: any name for the CV, a few for the job spec.
SentNames ==
  [cv : Names(MaxNameLen),
   job_spec : {<<"a">>, <<"/", " ", "a">>, <<".", ".", "/">>}]

\* path.basename: what follows the last slash, trailing slashes dropped.
RECURSIVE basename(_)
basename(name) ==
  IF name = <<>> THEN name
  ELSE IF name[Len(name)] = "/" THEN basename(SubSeq(name, 1, Len(name) - 1))
  ELSE LET front == SubSeq(name, 1, Len(name) - 1) IN
       IF front = <<>> \/ front[Len(front)] = "/" THEN <<name[Len(name)]>>
       ELSE Append(basename(front), name[Len(name)])

\* The characters [a-zA-Z0-9._-] of the alphabet.
SafeChar(c) == c \in {"a", "."}

\* name.replace(/[^a-zA-Z0-9._-]/g, '')
replace(name) == SelectSeq(name, SafeChar)

\* multer's originalname: the filename parameter of the part, of which the
\* parser keeps what follows the last slash (preservePath is not set).
OriginalName(name) ==
  LET cut == {i \in 1..Len(name) : name[i] = "/"} IN
  IF cut = {} THEN name
  ELSE SubSeq(name, (CHOOSE i \in cut : \A j \in cut : j <= i) + 1, Len(name))

\* A multipart /upload request arrives: express.json and express.urlencoded do
\* not read it, req.files is not set.
ReceiveMultipart ==
  /\ san.stage = "none"
  /\ \E names \in SentNames :
       san' = [san EXCEPT !.stage = "received", !.sent = names]
  /\ UNCHANGED <<upl, doc, ret, lim, shut, rty, qto, brw>>
  /\ UNCHANGED <<mainVars, queueVars, healthVars>>

\* app.use(sanitizeRequest): if (req.files) { ... } on the request as it is when
\* the application-level middleware runs.
sanitizeRequest ==
  /\ san.stage = "received"
  /\ san' = [san EXCEPT !.stage = "sanitized",
                        !.files = IF san.files = NoData THEN NoData
                                  ELSE [f \in DOMAIN san.files |->
                                          replace(basename(san.files[f]))]]
  /\ UNCHANGED <<upl, doc, ret, lim, shut, rty, qto, brw>>
  /\ UNCHANGED <<mainVars, queueVars, healthVars>>

\* upload.fields(...) in the route's own chain: the parts are read and
\* req.files is set.
UploadFields ==
  /\ san.stage = "sanitized"
  /\ san' = [san EXCEPT !.stage = "parsed",
                        !.files = [f \in DOMAIN san.sent |-> OriginalName(san.sent[f])]]
  /\ UNCHANGED <<upl, doc, ret, lim, shut, rty, qto, brw>>
  /\ UNCHANGED <<mainVars, queueVars, healthVars>>

\* The handler composes cvs/<ts>-<originalname> and job_specs/<ts>-<originalname>.
ComposeKeys ==
  /\ san.stage = "parsed"
  /\ san' = [san EXCEPT !.stage = "handled",
                        !.keys = [cv |-> [dir |-> "cvs", name |-> san.files.cv],
                                  job_spec |-> [dir |-> "job_specs",
                                                name |-> san.files.job_spec]]]
  /\ UNCHANGED <<upl, doc, ret, lim, shut, rty, qto, brw>>
  /\ UNCHANGED <<mainVars, queueVars, healthVars>>

NextSanitize == ReceiveMultipart \/ sanitizeRequest \/ UploadFields \/ ComposeKeys

\* ---------------------------------------------------------------- shutdown
\* Requests a worker has open at once; requests accepted after the signal.
MaxOpen == 2
MaxLate == 1

\* The server listens (app.listen) and nothing closes it: a request is accepted
\* whenever the process runs. late counts those accepted after the signal.
AcceptRequest ==
  /\ ~shut.exited
  /\ shut.open < MaxOpen
  /\ shut.signal # "none" => shut.late < MaxLate
  /\ shut' = [shut EXCEPT !.open = @ + 1,
                          !.late = IF shut.signal = "none" THEN @ ELSE @ + 1]
  /\ UNCHANGED <<upl, doc, ret, lim, san, rty, qto, brw>>
  /\ UNCHANGED <<mainVars, queueVars, healthVars>>

\* A handler sends its response.
CompleteRequest ==
  /\ ~shut.exited
  /\ shut.open > 0
  /\ shut' = [shut EXCEPT !.open = @ - 1]
  /\ UNCHANGED <<upl, doc, ret, lim, san, rty, qto, brw>>
  /\ UNCHANGED <<mainVars, queueVars, healthVars>>

\* SIGTERM or SIGINT: the listeners run one after the other, each up to its
\* await. security.js (SIGTERM only) calls redis.quit(); queue.js calls close()
\* on the three queues; server.js calls queueShutdown(), which calls close() on
\* the three queues again, and waits.
Signal(sig) ==
  /\ shut.signal = "none"
  /\ shut' = [shut EXCEPT !.signal = sig,
                          !.redis = IF sig = "SIGTERM" THEN "quitting" ELSE @,
                          !.closeCalls = [q \in Queues |-> 2]]
  /\ UNCHANGED <<upl, doc, ret, lim, san, rty, qto, brw>>
  /\ UNCHANGED <<mainVars, queueVars, healthVars>>

\* queue.close() resolves (both calls share the closing of the queue).
QueueCloses(q) ==
  /\ shut.signal # "none" /\ ~shut.exited
  /\ ~shut.closed[q]
  /\ shut' = [shut EXCEPT !.closed[q] = TRUE]
  /\ UNCHANGED <<upl, doc, ret, lim, san, rty, qto, brw>>
  /\ UNCHANGED <<mainVars, queueVars, healthVars>>

\* redis.quit() resolves.
RedisQuits ==
  /\ shut.redis = "quitting" /\ ~shut.exited
  /\ shut' = [shut EXCEPT !.redis = "closed"]
  /\ UNCHANGED <<upl, doc, ret, lim, san, rty, qto, brw>>
  /\ UNCHANGED <<mainVars, queueVars, healthVars>>

\* await queueShutdown() returns in server.js's gracefulShutdown, which calls
\* process.exit(0): the requests still open are cut.
ProcessExit ==
  /\ shut.signal # "none" /\ ~shut.exited
  /\ \A q \in Queues : shut.closed[q]
  /\ shut' = [shut EXCEPT !.exited = TRUE, !.cut = shut.open, !.open = 0]
  /\ UNCHANGED <<upl, doc, ret, lim, san, rty, qto, brw>>
  /\ UNCHANGED <<mainVars, queueVars, healthVars>>

NextShutdown ==
  \/ AcceptRequest
  \/ CompleteRequest
  \/ \E sig \in {"SIGTERM", "SIGINT"} : Signal(sig)
  \/ \E q \in Queues : QueueCloses(q)
  \/ RedisQuits
  \/ ProcessExit

\* ------------------------------------------- dbUtils.uploadFileWithRetry
\* maxRetries = 3, the default the /upload handler leaves in place.
MaxRetries == 3

\* What one supabase.storage upload can settle with: data, an error in the
\* returned object, or a rejection.
UploadSettlements ==
  {[data |-> d] : d \in {"path1", "path2"}}
    \cup {[error |-> e] : e \in {"e1", "e2", "e3"}}
    \cup {[thrown |-> e] : e \in {"t1", "t2"}}

\* if (error) throw error, and a rejected await: the error the catch block gets.
Caught(settled) ==
  IF "error" \in DOMAIN settled THEN settled.error ELSE settled.thrown

\* One attempt more than maxRetries.
GivesUp_OneLate(attempt) == attempt = MaxRetries + 1

\* if (attempt === maxRetries) throw error
GivesUp(attempt) == attempt = MaxRetries

\* Math.pow(2, attempt) * 1000
RetryDelay(attempt) == (2 ^ attempt) * 1000

\* The call: attempt = 1 and the first upload is started.
CallUploadFileWithRetry ==
  /\ rty.pc = "idle"
  /\ rty' = [rty EXCEPT !.pc = "upload", !.attempt = 1]
  /\ UNCHANGED <<upl, doc, ret, lim, san, shut, qto, brw>>
  /\ UNCHANGED <<mainVars, queueVars, healthVars>>

\* The awaited upload settles: return data; or catch, then rethrow on the last
\* attempt, else start the backoff timer.
UploadAttemptSettles ==
  /\ rty.pc = "upload"
  /\ \E settled \in UploadSettlements :
       LET calls == Append(rty.calls, settled) IN
       IF "data" \in DOMAIN settled
         THEN rty' = [rty EXCEPT !.pc = "returned", !.calls = calls,
                                 !.result = settled]
         ELSE IF GivesUp(rty.attempt)
           THEN rty' = [rty EXCEPT !.pc = "thrown", !.calls = calls,
                                   !.result = [rethrown |-> Caught(settled)]]
           ELSE rty' = [rty EXCEPT !.pc = "wait", !.calls = calls,
                                   !.waits = Append(@, RetryDelay(rty.attempt))]
  /\ UNCHANGED <<upl, doc, ret, lim, san, shut, qto, brw>>
  /\ UNCHANGED <<mainVars, queueVars, healthVars>>

\* The backoff timer fires: attempt++, and the loop body starts the next upload.
BackoffElapses ==
  /\ rty.pc = "wait"
  /\ rty' = [rty EXCEPT !.pc = "upload", !.attempt = @ + 1]
  /\ UNCHANGED <<upl, doc, ret, lim, san, shut, qto, brw>>
  /\ UNCHANGED <<mainVars, queueVars, healthVars>>

NextRetry == CallUploadFileWithRetry \/ UploadAttemptSettles \/ BackoffElapses

\* ---------------------------------------------- dbUtils.queryWithTimeout
\* timeoutMs = 10000 by default.
DefaultTimeoutMs == 10000

\* Steps of 2500 ms the clock takes.
MaxClockSteps == 5

Pending == [pending |-> TRUE]
TimeoutError(t) == [rejected |-> "Database query timeout", after |-> t]

\* What queryFn's promise can settle with.
QuerySettlements ==
  {[resolved |-> r] : r \in {"rows", "none"}} \cup {[rejected |-> e] : e \in {"e1", "e2"}}

\* A promise that takes the latest call.
Settle_Overwrite(promise, outcome) == outcome

\* resolve(v) / reject(e) of a promise: the first call settles it, later calls
\* do nothing.
Settle(promise, outcome) == IF promise = Pending THEN outcome ELSE promise

\* queryWithTimeout(queryFn, timeoutMs): the executor arms the timer and calls
\* queryFn.
CallQueryWithTimeout ==
  /\ qto.pc = "idle"
  /\ \E t \in {DefaultTimeoutMs, 5000} :
       qto' = [qto EXCEPT !.pc = "called", !.t = t, !.query = "running",
                          !.timer = "armed"]
  /\ UNCHANGED <<upl, doc, ret, lim, san, shut, rty, brw>>
  /\ UNCHANGED <<mainVars, queueVars, healthVars>>

\* Time passes; an armed timer that is due fires before more time passes.
ClockStep ==
  /\ qto.pc = "called"
  /\ qto.elapsed < MaxClockSteps * 2500
  /\ qto.timer = "armed" => qto.elapsed < qto.t
  /\ qto' = [qto EXCEPT !.elapsed = @ + 2500]
  /\ UNCHANGED <<upl, doc, ret, lim, san, shut, rty, brw>>
  /\ UNCHANGED <<mainVars, queueVars, healthVars>>

\* await queryFn() returns or throws: clearTimeout(timeout), then resolve(result)
\* or reject(error).
QuerySettles ==
  /\ qto.query = "running"
  /\ \E settled \in QuerySettlements :
       qto' = [qto EXCEPT !.query = "settled",
                          !.timer = IF @ = "armed" THEN "cleared" ELSE @,
                          !.promise = Settle(@, settled),
                          !.events = Append(@, [what |-> settled, at |-> qto.elapsed])]
  /\ UNCHANGED <<upl, doc, ret, lim, san, shut, rty, brw>>
  /\ UNCHANGED <<mainVars, queueVars, healthVars>>

\* The setTimeout callback: reject(new Error(`Database query timeout after ...`)).
TimeoutFires ==
  /\ qto.timer = "armed"
  /\ qto.elapsed >= qto.t
  /\ qto' = [qto EXCEPT !.timer = "fired",
                        !.promise = Settle(@, TimeoutError(qto.t)),
                        !.events = Append(@, [what |-> TimeoutError(qto.t),
                                              at |-> qto.elapsed])]
  /\ UNCHANGED <<upl, doc, ret, lim, san, shut, rty, brw>>
  /\ UNCHANGED <<mainVars, queueVars, healthVars>>

NextTimeout == CallQueryWithTimeout \/ ClockStep \/ QuerySettles \/ TimeoutFires

\* ---------------------------------------- the browser of POST /tailor-cv
\* Renderings started.
MaxRenders == 3

\* A slot with no rendering: at, the index in RenderSteps of the step awaited
\* (0: none); browser, the process puppeteer.launch started.
NoRender == [at |-> 0, browser |-> "none", status |-> 0]

\* A request with parsed data enters the rendering part of the try block. The
\* slot of an answered request is taken over; a browser it left open stays open.
RenderBegins(r) ==
  /\ brw.slots[r].at = 0
  /\ brw.n < MaxRenders
  /\ brw' = [brw EXCEPT !.slots[r] = [NoRender EXCEPT !.at = 1],
                        !.n = @ + 1,
                        !.leaked = IF brw.slots[r].browser = "open" THEN @ + 1 ELSE @]
  /\ UNCHANGED <<upl, doc, ret, lim, san, shut, rty, qto>>
  /\ UNCHANGED <<mainVars, queueVars, healthVars>>

\* The step awaited returns: launch gives the browser, close ends it and the
\* PDF is sent.
RenderStepReturns(r) ==
  LET slot == brw.slots[r]
      step == RenderSteps[slot.at]
  IN /\ slot.at > 0
     /\ brw' = [brw EXCEPT !.slots[r] =
                  IF step = "close"
                    THEN [at |-> 0, browser |-> "closed", status |-> 200]
                    ELSE [slot EXCEPT !.at = @ + 1,
                                      !.browser = IF step = "launch" THEN "open" ELSE @]]
     /\ UNCHANGED <<upl, doc, ret, lim, san, shut, rty, qto>>
     /\ UNCHANGED <<mainVars, queueVars, healthVars>>

\* The step awaited throws: the catch block logs and answers 500. It has no
\* access to the browser (a const of the try block) and there is no finally.
RenderStepThrows(r) ==
  LET slot == brw.slots[r] IN
  /\ slot.at > 0
  /\ brw' = [brw EXCEPT !.slots[r] = [slot EXCEPT !.at = 0, !.status = 500]]
  /\ UNCHANGED <<upl, doc, ret, lim, san, shut, rty, qto>>
  /\ UNCHANGED <<mainVars, queueVars, healthVars>>

NextBrowser ==
  \E r \in Reqs : RenderBegins(r) \/ RenderStepReturns(r) \/ RenderStepThrows(r)

Init ==
  /\ store = [i \in IdSpace |-> NoRow]
  /\ subCache = [i \in IdSpace |-> Nil]
  /\ respCache = [i \in IdSpace |-> Nil]
  /\ redisUp = TRUE
  /\ cvQueue = <<>>
  /\ req = [r \in Reqs |-> IdleReq]
  /\ qjobs = <<>>
  /\ workerUp = [q \in Queues |-> TRUE]
  /\ checks = [database |-> TRUE, system |-> TRUE]
  /\ health = [report |-> NoReport, statusCode |-> 0, armed |-> TRUE, elapsed |-> 0,
               fired |-> NoReport, log |-> "none"]
  /\ metrics = [requestCount |-> 0, errorCount |-> 0, responses |-> 0, errorResponses |-> 0]
  /\ upl = [slot |-> 1, sent |-> NoUpload, n |-> 0]
  /\ ret = [queue |-> "none", completed |-> <<>>, failed |-> <<>>,
            nCompleted |-> 0, nFailed |-> 0]
  /\ doc = [stage |-> "none", raw |-> NoData, data |-> NoData, html |-> <<>>]
  /\ lim = [hits |-> [w \in Workers |-> [r \in LimitedRoutes |-> 0]], reached |-> [r \in LimitedRoutes |-> 0], last |-> NoAnswer]
  /\ san = [stage |-> "none", sent |-> NoData, files |-> NoData, keys |-> NoData]
  /\ shut = [signal |-> "none", open |-> 0, late |-> 0, closeCalls |-> [q \in Queues |-> 0], closed |-> [q \in Queues |-> FALSE], redis |-> "open", exited |-> FALSE, cut |-> 0]
  /\ rty = [pc |-> "idle", attempt |-> 0, calls |-> <<>>, waits |-> <<>>, result |-> NoData]
  /\ qto = [pc |-> "idle", t |-> 0, elapsed |-> 0, query |-> "none", timer |-> "none", promise |-> Pending, events |-> <<>>]
  /\ brw = [slots |-> [r \in Reqs |-> NoRender], n |-> 0, leaked |-> 0]

Next ==
  \/ \E r \in Reqs : StartUpload(r)
  \/ \E r \in Reqs : UploadInsert(r)
  \/ \E r \in Reqs : UploadCache(r)
  \/ \E r \in Reqs : StartTailor(r)
  \/ \E r \in Reqs : TailorFetch(r)
  \/ \E r \in Reqs : TailorCacheSet(r)
  \/ \E r \in Reqs : TailorEnqueue(r)
  \/ \E r \in Reqs : TailorGenerate(r)
  \/ \E r \in Reqs : TailorRender(r)
  \/ \E r \in Reqs : StartGet(r)
  \/ \E r \in Reqs : GetCacheGet(r)
  \/ \E r \in Reqs : GetFetch(r)
  \/ \E r \in Reqs : GetCacheSet(r)
  \/ \E id \in IdSpace : ExpireSubmission(id)
  \/ \E id \in IdSpace : ExpireResponse(id)
  \/ RedisFails
  \/ RedisRecovers
  \/ TakeCvJob

NextUpload ==
  \/ \E r \in Reqs : StartUploadRequest(r)
  \/ \E r \in Reqs : UploadInsert(r)
  \/ \E r \in Reqs : UploadCache(r)
  \/ \E r \in Reqs : GetUploaded(r)
  \/ \E r \in Reqs : GetCacheGet(r)
  \/ \E r \in Reqs : GetFetch(r)
  \/ \E r \in Reqs : GetCacheSet(r)
  \/ \E id \in IdSpace : ExpireSubmission(id)
  \/ \E id \in IdSpace : ExpireResponse(id)
  \/ RedisFails
  \/ RedisRecovers

Spec == Init /\ [][Next]_vars

\* The three queues and their workers alone.
SpecQueue == Init /\ [][NextQueue]_vars

\* Bull's worker loops keep taking and running jobs; stalls are not forced.
SpecQueueFair == SpecQueue /\ \A j \in JobIds : WF_vars(Progress(j))

\* /upload from the wire, and GET /submission/:id after it.
SpecUpload == Init /\ [][NextUpload]_vars

\* The finished sets of one queue under the configured retention.
SpecRetention == Init /\ [][NextRetention]_vars

\* One parsed CV from JSON.parse to the rendered markup.
SpecRender == Init /\ [][NextRender]_vars

\* The health endpoints, the counters and the scheduled check alone.
SpecHealth == Init /\ [][NextHealth]_vars

\* Time passes and the event loop runs the callback of a timer that is due.
SpecHealthFair == SpecHealth /\ WF_vars(Tick) /\ WF_vars(TimerFires)


\* The rate limiters of the worker processes, seen from one client address.
SpecLimit == Init /\ [][NextLimit]_vars

\* One multipart request through sanitizeRequest, multer and the handler.
SpecSanitize == Init /\ [][NextSanitize]_vars

\* A worker process receiving SIGTERM or SIGINT while it serves requests.
SpecShutdown == Init /\ [][NextShutdown]_vars

\* One call of uploadFileWithRetry.
SpecRetry == Init /\ [][NextRetry]_vars

\* The storage request settles and the timer fires.
SpecRetryFair == SpecRetry /\ WF_vars(UploadAttemptSettles) /\ WF_vars(BackoffElapses)

\* One call of queryWithTimeout against the clock.
SpecTimeout == Init /\ [][NextTimeout]_vars


\* The rendering part of /tailor-cv, step by step, with its browser.
SpecBrowser == Init /\ [][NextBrowser]_vars

\* ================================================================== claims
Tailors == {r \in Reqs : req[r].kind = "tailor"}
AllMalformed(outs) == outs # <<>> /\ \A i \in DOMAIN outs : outs[i] = "malformed"
\* The k-th answer is the first one JSON.parse accepts.
FirstParseAt(outs, k) ==
  /\ Len(outs) >= k
  /\ outs[k] \in {"object", "falsy"}
  /\ \A i \in 1..(k - 1) : outs[i] = "malformed"

\* C1: when every answer of the generative service fails to parse, a
\* /tailor-cv request invokes the service exactly 3 times, never a 4th time,
\* and ends with the generic HTTP 500 tailoring-failure message and no PDF.
C1_AllMalformedThreeCalls ==
  \A r \in Tailors :
    /\ Len(req[r].outs) <= 3
    /\ AllMalformed(req[r].outs) /\ Len(req[r].outs) < 3 => req[r].pc = "t_gen"
    /\ AllMalformed(req[r].outs) /\ req[r].pc = "done" =>
         /\ Len(req[r].outs) = 3
         /\ req[r].status = 500
         /\ req[r].body = ErrAiFailed
         /\ req[r].ctype = "application/json"
         /\ req[r].rendered = "none"

C1_Witness ==
  \E r \in Tailors :
    /\ req[r].pc = "done"
    /\ req[r].outs = <<"malformed", "malformed", "malformed">>
    /\ req[r].status = 500

\* C2: if the k-th answer (k in 1..3) is the first one that parses, the
\* service is invoked exactly k times and the request goes on to
\* normalization and rendering.
C2_FirstParseGoesOnToRender ==
  \A r \in Tailors : \A k \in 1..3 :
    FirstParseAt(req[r].outs, k) =>
      /\ Len(req[r].outs) = k
      /\ req[r].pc = "t_render" \/ req[r].rendered # "none"

\* The status the state machine uploaded -> queued -> tailoring ->
\* {tailored | failed} asks for at the request's position.
PipelineStatus(rq) ==
  IF rq.pc = "t_gen" /\ rq.outs = <<>> THEN {"queued", "tailoring"}
  ELSE IF rq.pc \in {"t_gen", "t_render"} THEN {"tailoring"}
  ELSE IF rq.ctype = "application/pdf" THEN {"tailored"}
  ELSE {"failed"}

\* C3: a tailor request drives Submission.status forward: queued when the
\* job is enqueued, tailoring while the generative call runs, tailored when
\* the PDF is returned, failed when the parses are exhausted or rendering fails.
C3_StatusFollowsPipeline ==
  \A r \in Tailors :
    (req[r].job # NoJob /\ (\A q \in Tailors \ {r} : req[q].id # req[r].id))
      => (store[req[r].id].status \in PipelineStatus(req[r]))

Rank(status) ==
  IF status = "uploaded" THEN 0
  ELSE IF status = "queued" THEN 1
  ELSE IF status = "tailoring" THEN 2
  ELSE 3

\* C4: over any interleaving of upload, tailor and get requests, a row is
\* never removed and its status never moves to an earlier state of
\* uploaded < queued < tailoring < {tailored, failed}.
C4_StatusNeverRegresses ==
  [][\A id \in IdSpace :
       store[id] # NoRow =>
         /\ store'[id] # NoRow
         /\ Rank(store'[id].status) >= Rank(store[id].status)]_vars

\* Two tailor requests on the same stored submission overlap, one of them
\* already answered with the PDF.
C4_Witness ==
  \E r, q \in Tailors :
    /\ r # q /\ req[r].id = req[q].id
    /\ req[r].ctype = "application/pdf"
    /\ req[q].pc = "t_gen"
    /\ store[req[r].id].status = "uploaded"

\* C5: if the submission read has a null or empty CV text or job spec text,
\* /tailor-cv answers HTTP 400; no job is enqueued, the generative service
\* is not invoked and nothing is rendered for that request.
C5_MissingTextRejected ==
  \A r \in Tailors :
    req[r].lacksText =>
      /\ req[r].job = NoJob
      /\ req[r].outs = <<>>
      /\ req[r].rendered = "none"
      /\ req[r].pc \in {"t_cacheset", "t_enqueue", "done"}
      /\ req[r].pc = "done" => req[r].status = 400 /\ req[r].body = ErrMissingContent

C5_Witness ==
  \E r \in Tailors :
    /\ req[r].lacksText /\ req[r].pc = "done" /\ req[r].status = 400
    /\ req[r].data.job_spec_text = Null

\* C6 as stated: a well-formed submissionId with no row gets HTTP 400, no
\* job and no generative call.
C6_MissingSubmissionIs400 ==
  \A r \in Tailors :
    req[r].fetched = "missing" /\ req[r].pc = "done" =>
      /\ req[r].status = 400
      /\ req[r].job = NoJob
      /\ req[r].outs = <<>>

\* C6 amended: a well-formed submissionId with no row gets HTTP 500 with the
\* generic internal-error body, no job and no generative call.
C6_MissingSubmissionIs500 ==
  \A r \in Tailors :
    req[r].fetched = "missing" =>
      /\ req[r].pc = "done"
      /\ req[r].status = 500
      /\ req[r].body = ErrInternal
      /\ req[r].job = NoJob
      /\ req[r].outs = <<>>

C6_Witness ==
  \E r \in Tailors :
    req[r].fetched = "missing" /\ req[r].pc = "done" /\ req[r].id \in IdSpace

Gets == {r \in Reqs : req[r].kind = "get"}
Uploads == {r \in Reqs : req[r].kind = "upload"}

\* C7: a failing cache is never surfaced. With Redis failing, get and
\* getSubmission give null, set and cacheSubmission return without throwing
\* and write nothing, cacheMiddleware passes the request on; a GET none of
\* whose cache commands succeeded reads the store, and GET and /upload answer
\* from the store's outcome alone, as they do on a cache miss.
C7_CacheFailureNotSurfaced ==
  /\ \A id \in IdSpace :
       /\ getSubmission(FALSE, id) = [threw |-> FALSE, val |-> NoData]
       /\ cacheSubmission(FALSE, id, store[id]) = [threw |-> FALSE, cache |-> subCache]
       /\ cacheMiddleware(FALSE, respCache[id]).next = "handler"
  /\ \A r \in Gets :
       /\ (~req[r].cacheOk /\ req[r].pc = "done") => req[r].storeQ = 1
       /\ (req[r].storeQ = 1 /\ req[r].pc = "done") =>
            IF req[r].fetched = "ok"
              THEN req[r].status = 200 /\ req[r].body = store[req[r].id]
              ELSE req[r].status = 500 /\ req[r].body = ErrInternal
  /\ \A r \in Uploads :
       (req[r].fetched = "ok" /\ req[r].pc = "done") =>
         /\ req[r].status = 200
         /\ req[r].body = UploadBody(<<store[req[r].id]>>)

\* A GET answered while every cache command it issued failed.
C7_Witness ==
  \E r \in Gets :
    /\ req[r].pc = "done" /\ ~req[r].cacheOk /\ ~redisUp
    /\ req[r].status = 200
    /\ req[r].body = store[req[r].id]

\* C8: whatever requests came before, a GET /submission/:id answered by the
\* handler with a submission returns the full row the store holds; an entry
\* written under submission:<id> by /tailor-cv does not change it.
C8_GetReturnsStoreEntity ==
  \A r \in Gets :
    (req[r].pc = "done" /\ req[r].data # NoData) => req[r].body = store[req[r].id]

\* C9: reading a submission is cache-first read-through. On a hit for
\* submission:<id> the store is not queried; on a miss it is queried once and
\* a row it returns is written under submission:<id> (Redis available), so
\* that a following read of the id finds it.
C9_CacheFirstReadThrough ==
  [][\A r \in Reqs :
       LET a == req[r]
           b == req'[r]
           hit == redisUp /\ subCache[b.id] # Nil
       IN
       /\ b.storeQ <= 1
       /\ (Idle(r) /\ b # a /\ b.kind = "tailor" /\ b.id \in IdSpace) =>
            /\ b.storeQ = 0
            /\ hit => (b.pc = "t_enqueue" /\ b.data = JSON_parse(subCache[b.id]))
            /\ ~hit => b.pc = "t_fetch"
       /\ (a.kind = "get" /\ a.pc = "g_cacheget" /\ b # a) =>
            /\ b.storeQ = 0
            /\ hit => (b.pc = "done" /\ b.status = 200
                       /\ b.body = JSON_parse(subCache[b.id]))
            /\ ~hit => b.pc = "g_fetch"
       /\ (a.pc \in {"t_fetch", "g_fetch"} /\ b # a) =>
            /\ b.storeQ = 1
            /\ b.fetched = "ok" =>
                 (/\ b.pc = (IF a.kind = "tailor" THEN "t_cacheset" ELSE "g_cacheset")
                  /\ b.data = (IF a.kind = "tailor" THEN TwoCol(store[a.id])
                                                    ELSE store[a.id]))
       /\ (a.pc \in {"t_cacheset", "g_cacheset"} /\ b # a /\ redisUp) =>
            /\ subCache'[a.id] = JSON_stringify(a.data)
            /\ cacheUtils_get(TRUE, subCache'[a.id]) = [threw |-> FALSE, val |-> a.data]
            /\ ~NeedsFetch(a.data)
    ]_vars

\* A GET that missed, read the store and filled the cache, and an overlapping
\* GET of the same id answered from that entry without a store query.
C9_Witness ==
  \E r, q \in Gets :
    /\ r # q /\ req[r].id = req[q].id
    /\ req[q].pc = "done" /\ req[q].storeQ = 1 /\ req[q].fetched = "ok"
    /\ subCache[req[q].id] = JSON_stringify(req[q].data)
    /\ req[r].pc = "done" /\ req[r].storeQ = 0 /\ req[r].status = 200
    /\ req[r].data = req[q].data

\* C10: /upload persists the row before it caches anything; the cache is
\* then filled under the row's id with exactly the row the store returned,
\* and the 200 response carries that row. When the insert fails or times out
\* the request caches nothing and answers HTTP 500 without an id.
C10_UploadPersistsThenCaches ==
  [][\A r \in Reqs :
       LET a == req[r]
           b == req'[r]
       IN
       /\ (a.kind = "upload" /\ a.pc = "u_cache") =>
            (a.id \in IdSpace /\ store[a.id] = a.data)
       /\ (a.kind = "upload" /\ a.pc = "u_insert" /\ b # a) =>
            /\ subCache' = subCache
            /\ b.fetched # "ok" =>
                 (/\ b.pc = "done" /\ b.status = 500 /\ b.body = ErrInternal
                  /\ b.id = BadId /\ ~b.cacheOk)
       /\ (a.kind = "upload" /\ a.pc = "u_cache" /\ b # a) =>
            /\ store' = store
            /\ b.pc = "done" /\ b.status = 200
            /\ b.body = UploadBody(<<store[a.id]>>)
            /\ redisUp => subCache'[a.id] = JSON_stringify(store[a.id])
            /\ ~redisUp => subCache' = subCache
    ]_vars

\* An upload answered 200 whose row is in the store and in the cache.
C10_Witness ==
  \E r \in Uploads :
    /\ req[r].pc = "done" /\ req[r].status = 200 /\ req[r].cacheOk
    /\ store[req[r].id] # NoRow
    /\ subCache[req[r].id] = JSON_stringify(store[req[r].id])
    /\ req[r].body.data[1].id = req[r].id

\* C12: a job whose handler throws on its first two executions and returns
\* on the third is completed after exactly 3 executions (it is not failed
\* after the second throw), and the delay before the third execution is
\* strictly larger than the delay before the second.
C12_ThirdAttemptCompletes ==
  \A j \in Added :
    LET job == qjobs[j] IN
    /\ job.runs = <<"throw", "throw">> =>
         (job.state \in {"delayed", "waiting", "active"} /\ job.attemptsMade = 2)
    /\ job.runs = <<"throw", "throw", "ok">> =>
         (job.state = "completed" /\ Len(job.delays) = 2)
    /\ Len(job.delays) >= 1 => job.delays[1] = BackoffDelay
    /\ Len(job.delays) >= 2 => job.delays[2] > job.delays[1]

C12_Witness ==
  \E j \in Added :
    /\ qjobs[j].runs = <<"throw", "throw", "ok">>
    /\ qjobs[j].state = "completed"
    /\ qjobs[j].delays = <<2000, 6000>>

\* What C13 asks of one job.
FailedByAttempts(job) ==
  /\ job.attemptsMade = Attempts
  /\ job.runs # <<>> /\ job.runs[Len(job.runs)] = "throw"
FailedByStalls(job) ==
  /\ job.stalledCount > MaxStalledCount
  /\ job.runs # <<>> /\ job.runs[Len(job.runs)] = "stall"

\* C13 as stated: attemptsMade never exceeds 3, a job is failed only with
\* attemptsMade = 3 and a last execution that threw, and a failed job is
\* never executed again.
C13_FailedOnlyAfterMaxAttempts ==
  [][/\ \A j \in DOMAIN qjobs' :
          /\ qjobs'[j].attemptsMade <= Attempts
          /\ qjobs'[j].state = "failed" => FailedByAttempts(qjobs'[j])
     /\ \A j \in Added : qjobs[j].state = "failed" => qjobs'[j] = qjobs[j]
    ]_vars

\* C13 amended: attemptsMade never exceeds 3; a job is failed only with
\* attemptsMade = 3 and a last execution that threw, or after it stalled
\* more often than the stall limit allows; a failed job is never executed
\* again.
C13_FailedAfterMaxAttemptsOrStalls ==
  [][/\ \A j \in DOMAIN qjobs' :
          /\ qjobs'[j].attemptsMade <= Attempts
          /\ qjobs'[j].state = "failed" =>
               (FailedByAttempts(qjobs'[j]) \/ FailedByStalls(qjobs'[j]))
          /\ (qjobs'[j].attemptsMade = Attempts /\ qjobs'[j].phase = "none"
              /\ FailedByAttempts(qjobs'[j])) => qjobs'[j].state = "failed"
     /\ \A j \in Added : qjobs[j].state = "failed" => qjobs'[j] = qjobs[j]
    ]_vars

\* A job failed by its third throw.
C13_Witness ==
  \E j \in Added :
    /\ qjobs[j].state = "failed"
    /\ qjobs[j].runs = <<"throw", "throw", "throw">>

\* C14: when a job has failed for good, every other job added to any queue
\* is still picked up and reaches completed or failed, and every worker loop
\* keeps running.
C14_FailuresIsolated ==
  /\ \A j \in JobIds :
       (j \in Added /\ \E k \in Added \ {j} : qjobs[k].state = "failed") ~> Terminal(j)
  /\ [](\A q \in Queues : workerUp[q])

\* A job running in a queue one of whose jobs has failed for good: with one
\* job active per queue it was picked up after that failure.
C14_Witness ==
  \E j, k \in Added :
    /\ j # k /\ qjobs[j].queue = qjobs[k].queue
    /\ qjobs[k].state = "failed" /\ qjobs[k].attemptsMade = Attempts
    /\ qjobs[j].state = "active" /\ qjobs[j].runs = <<>>

C16_OnePdfJobPerCvJob ==
  \A j \in Added :
    Cardinality({k \in Added : qjobs[k].parent = j}) <= 1

\* The worst of the five results under healthy < warning < unhealthy, an
\* errored check counting as unhealthy.
WorstOf(results) ==
  IF \E n \in CheckNames : results[n] \in {"unhealthy", "error"} THEN "unhealthy"
  ELSE IF \E n \in CheckNames : results[n] = "warning" THEN "warning"
  ELSE "healthy"
\* The reports computed so far, by the endpoint and by the timer.
Reports == {rep \in {health.report, health.fired} : rep.status # "none"}

\* C17: the composite status of every report is the worst of its five check
\* statuses: unhealthy whenever a check is unhealthy or errored, warning only
\* when none is and some check warns.
C17_CompositeIsWorst ==
  \A rep \in Reports : rep.status = WorstOf(rep.checks)

\* C18: /health/comprehensive answers 200 exactly when the composite status is
\* healthy or warning, and 503 when it is unhealthy or the report threw.
C18_ComprehensiveStatusCode ==
  health.statusCode # 0 =>
    LET rep == health.report IN
    /\ health.statusCode \in {200, 503}
    /\ health.statusCode = 200 <=> (~rep.threw /\ rep.status \in {"healthy", "warning"})
    /\ health.statusCode = 503 <=> (rep.threw \/ rep.status = "unhealthy")

\* The endpoint has answered a request whose report threw.
C18_Witness ==
  health.statusCode = 503 /\ health.report.threw

\* C19: the scheduled check fires when 5 minutes have passed since the last
\* firing and at no other time, whatever requests do; a firing logs a warning
\* exactly when it computed a status other than healthy; a firing that threw
\* leaves the timer set, and firings go on for ever.
C19_ScheduledCheckKeepsFiring ==
  /\ [][/\ health'.elapsed < health.elapsed =>
             /\ health.elapsed = HealthIntervalMinutes
             /\ health'.elapsed = 0
             /\ health'.log = "warn" <=>
                  (~health'.fired.threw /\ health'.fired.status # "healthy")
             /\ health'.fired.threw => health'.log = "error"
        /\ metrics' # metrics =>
             <<health'.elapsed, health'.log, health'.fired>>
               = <<health.elapsed, health.log, health.fired>>]_vars
  /\ [](health.armed /\ health.elapsed <= HealthIntervalMinutes)
  /\ []<><<TimerFires>>_vars

\* A firing threw, its exception was logged, and the timer is due again.
C19_Witness ==
  /\ health.fired.threw /\ health.log = "error"
  /\ health.armed /\ health.elapsed = HealthIntervalMinutes

\* C20: requestCount counts every response sent, errorCount those with a
\* status of 400 or more, and errorCount never exceeds requestCount.
C20_CountersFollowResponses ==
  /\ metrics.requestCount = metrics.responses
  /\ metrics.errorCount = metrics.errorResponses
  /\ metrics.errorCount <= metrics.requestCount

\* The latest /upload request, while its slot still shows it.
LatestUpload == upl.sent # NoUpload /\ req[upl.slot].kind = "upload"
\* A file of a type other than PDF, DOCX or plain text, or one its parser rejects.
Unsupported(f) ==
  f # NoFile /\ (f.mime \notin {Pdf, Docx, "text/plain"} \/ f.content = "corrupt")

\* C21: an uploaded file of a type other than PDF, DOCX or plain text, or one
\* that cannot be parsed, never leads to an insert, and when storage works the
\* request is answered with 400.
C21_UnsupportedFileIsExtractionError ==
  LatestUpload =>
    LET u == upl.sent
        rq == req[upl.slot]
    IN (Unsupported(u.cv) \/ Unsupported(u.job_spec)) =>
         /\ rq.storeQ = 0 /\ rq.pc \notin {"u_insert", "u_cache"}
         /\ (rq.pc = "done" /\ u.stored = "both") => rq.status = 400

\* Exactly one of the job_spec file and job_spec_text_input is supplied.
OneJobSpecSource(u) == (u.job_spec = NoFile) # (u.text = Null)
\* The response of an /upload that created the submission it returns.
Created(rq) ==
  /\ rq.status = 200
  /\ rq.body = UploadBody(<<store[rq.id]>>)
  /\ store[rq.id] # NoRow /\ store[rq.id].id = rq.id /\ store[rq.id].status = "uploaded"
\* A response of GET /submission/:id that is the stored row.
Retrieved(rq) ==
  rq.status = 200 /\ store[rq.id] # NoRow /\ rq.body = store[rq.id]

Accepted(u) ==
  /\ u.multipart /\ u.cv # NoFile /\ u.text # "short"
  /\ \A f \in {u.cv, u.job_spec} \ {NoFile} : fileFilter(f) /\ f.size # "over5"
  /\ ExtractText(u.cv, "cv") # Null
  /\ u.job_spec # NoFile => (u.job_spec.size = "ok" /\ ExtractText(u.job_spec, "js") # Null)

C23_NoCvIs400 ==
  LatestUpload =>
    LET u == upl.sent
        rq == req[upl.slot]
    IN (u.cv = NoFile) =>
         /\ rq.blobs = {} /\ rq.storeQ = 0 /\ ~rq.cacheOk
         /\ rq.pc = "done" => (rq.status = 400 /\ "error" \in DOMAIN rq.body)

\* C24: every row /upload persists has a CV text that is not null and a job
\* spec text that is not empty; an upload with neither job-spec source, or
\* whose extracted text is empty, never reaches the insert.
C24_PersistedTextsPresent ==
  /\ \A id \in IdSpace :
       store[id] # NoRow =>
         store[id].original_cv_text # Null /\ ~Falsy(store[id].job_spec_text)
  /\ LatestUpload =>
       LET u == upl.sent IN
       ((u.job_spec = NoFile /\ u.text = Null)
          \/ (u.cv # NoFile /\ ExtractText(u.cv, "cv") = "")) => req[upl.slot].storeQ = 0

\* C25: an /upload that supplies both the job_spec file and job_spec_text_input
\* stores no job-spec blob, never reaches the insert and, when storage works,
\* is answered with 400.
C25_BothJobSpecSourcesRejected ==
  LatestUpload =>
    LET u == upl.sent
        rq == req[upl.slot]
    IN (u.job_spec # NoFile /\ u.text # Null) =>
         /\ "job_spec" \notin rq.blobs /\ rq.storeQ = 0
         /\ (rq.pc = "done" /\ u.stored = "both") => rq.status = 400

\* C26: GET /submission/:id for an id that has no row is answered with 404, on
\* the first request and on every later one.
C26_MissingSubmissionIs404 ==
  \A r \in Reqs :
    (req[r].kind = "get" /\ req[r].pc = "done" /\ store[req[r].id] = NoRow)
      => req[r].status = 404

\* C27: a response of type application/pdf is sent only when the parse gave
\* data and every step of rendering and PDF generation succeeded, and it is
\* the 200 response carrying the buffer; when a step failed the response is
\* the JSON 500 error.
C27_PdfOnlyAfterRenderSucceeds ==
  \A r \in Tailors :
    /\ req[r].ctype = "application/pdf" =>
         /\ req[r].pc = "done" /\ req[r].status = 200 /\ req[r].body = PdfBody
         /\ req[r].rendered = "ok" /\ req[r].tailoredCvData # NoData
    /\ req[r].rendered = "fail" =>
         /\ req[r].pc = "done" /\ req[r].status = 500
         /\ req[r].ctype = "application/json" /\ req[r].body = ErrInternal

\* A request whose rendering failed after a valid parse has been answered.
C27_Witness ==
  \E r \in Tailors :
    req[r].rendered = "fail" /\ req[r].tailoredCvData # NoData /\ req[r].status = 500

\* The skills fields of the parsed data.
SkillFields == {"technical_skills", "soft_skills"}

IsLetter(c) == c \notin {" ", ","}

Letters(x) == SelectSeq(x, IsLetter)

RECURSIVE Concat(_)
Concat(parts) == IF parts = <<>> THEN <<>> ELSE Head(parts) \o Concat(Tail(parts))

\* The positions of the first letter of each comma-delimited segment of x.
SegmentStarts(x) ==
  {i \in 1..Len(x) :
     /\ IsLetter(x[i])
     /\ \A j \in 1..(i - 1) : (\A k \in j..(i - 1) : x[k] # ",") => ~IsLetter(x[j])}

\* part is a trimmed, non-empty, comma-free piece of x.
TrimmedPieceOf(part, x) ==
  /\ part # <<>>
  /\ part[1] # " " /\ part[Len(part)] # " "
  /\ \A i \in 1..Len(part) : part[i] # ","
  /\ \E i \in 1..Len(x) : \E j \in i..Len(x) : SubSeq(x, i, j) = part

\* C28: once the skills are normalized, a field that was a comma-separated
\* string is the list of its parts, in order, trimmed and without the empty
\* ones; a field that was not a string is unchanged; and normalizing the result
\* again changes nothing.
C28_SkillsNormalized ==
  doc.stage \in {"normalized", "rendered"} =>
    \A f \in SkillFields :
      LET v == doc.raw[f]
          w == doc.data[f]
      IN /\ IsString(v) =>
              /\ ~IsString(w) /\ w # NoData
              /\ \A i \in 1..Len(w.list) : TrimmedPieceOf(w.list[i], v.str)
              /\ Len(w.list) = Cardinality(SegmentStarts(v.str))
              /\ Letters(Concat(w.list)) = Letters(v.str)
         /\ ~IsString(v) => w = v
         /\ NormalizeSkills(w) = w

\* A string with an empty part and parts in two letters has been normalized
\* next to a list that was left alone.
C28_Witness ==
  /\ doc.stage = "normalized"
  /\ doc.raw.technical_skills = Str(<<"b", ",", ",", "a">>)
  /\ doc.data.technical_skills = List(<< <<"b">>, <<"a">> >>)
  /\ doc.raw.soft_skills = List(<< <<"a">> >>)
  /\ doc.data.soft_skills = List(<< <<"a">> >>)

\* C29: the markup rendered from data with empty skills lists and no portfolio
\* link contains the candidate's name and nothing of the skills section or the
\* portfolio link: no heading, no label, no list.
C29_EmptySkillsAndPortfolioOmitted ==
  (/\ doc.stage = "rendered"
   /\ doc.data.technical_skills = List(<<>>)
   /\ doc.data.soft_skills = List(<<>>)
   /\ doc.data.portfolio_github_url = Null) =>
    /\ \E i \in 1..Len(doc.html) : doc.html[i] = El("h1", doc.data.full_name)
    /\ \A i \in 1..Len(doc.html) :
         /\ doc.html[i].el \notin {"skills-category", "ul", "li"}
         /\ ~(doc.html[i].el = "section-title" /\ doc.html[i].text = "Skills")
         /\ doc.html[i].el = "a" => doc.html[i].text = doc.data.linkedin_url

\* The latest entries of a finished set that has seen n jobs, at most keep of them.
LatestOf(n, keep) ==
  LET len == IF n > keep THEN keep ELSE n IN [i \in 1..len |-> n - len + i]

\* C30: after any sequence of completions and failures a queue keeps at most
\* 100 completed and at most 50 failed jobs, and they are the latest ones: the
\* oldest are pruned first.
C30_RetainedJobsBounded ==
  /\ Len(ret.completed) <= 100
  /\ Len(ret.failed) <= 50
  /\ ret.completed = LatestOf(ret.nCompleted, 100)
  /\ ret.failed = LatestOf(ret.nFailed, 50)

\* Both finished sets are full and have each lost their oldest job.
C30_Witness ==
  /\ ret.nCompleted = 101 /\ Len(ret.completed) = 100 /\ ret.completed[1] = 2
  /\ ret.nFailed = 51 /\ Len(ret.failed) = 50 /\ ret.failed[1] = 2

\* C31: within one rate-limit window at most 5 /tailor-cv requests and at most
\* 10 /upload requests of one client reach their handlers, over all the worker
\* processes; a request beyond that is answered with the rate-limit error.
C31_LimitHoldsAcrossWorkers ==
  /\ lim.reached["tailor"] <= 5
  /\ lim.reached["upload"] <= 10
  /\ (lim.last # NoAnswer /\ lim.last.status = 429) => lim.last.body \in {
       ErrBody("Too many upload requests. Please try again later."),
       ErrBody("Too many CV tailoring requests. Please try again later.")}

\* C32: the names used in the storage keys are sanitized: no character outside
\* [a-zA-Z0-9._-] is left in them, and sanitizeRequest has worked on the parsed
\* files before the handler composes the keys.
C32_KeysAreSanitized ==
  san.stage = "handled" =>
    \A f \in {"cv", "job_spec"} :
      \A i \in 1..Len(san.keys[f].name) : san.keys[f].name[i] \in {"a", "."}

\* C33: a worker that has exited on a signal accepted no request after the
\* signal, cut no request that was in flight, had close() called once on each
\* queue and every queue closed, and had closed the Redis connection.
C33_ShutdownInOrder ==
  shut.exited =>
    /\ shut.late = 0
    /\ shut.cut = 0
    /\ \A q \in Queues : shut.closeCalls[q] = 1 /\ shut.closed[q]
    /\ shut.redis = "closed"

\* What holds of a call of uploadFileWithRetry at every moment.
RetryShape ==
  LET n == Len(rty.calls)
      failed == {i \in 1..n : "data" \notin DOMAIN rty.calls[i]}
  IN /\ n <= 3
     /\ \A i \in 1..n : "data" \in DOMAIN rty.calls[i] => i = n /\ rty.pc = "returned"
     /\ rty.pc = "returned" => rty.result = rty.calls[n] /\ "data" \in DOMAIN rty.result
     /\ Len(rty.waits) = (IF Cardinality(failed) = 3 THEN 2 ELSE Cardinality(failed))
     /\ \A i \in 1..Len(rty.waits) : rty.waits[i] = (IF i = 1 THEN 2000 ELSE 4000)
     /\ rty.pc = "thrown" <=> Cardinality(failed) = 3
     /\ rty.pc = "thrown" =>
          \/ rty.calls[3] = [error |-> rty.result.rethrown]
          \/ rty.calls[3] = [thrown |-> rty.result.rethrown]

\* C34: uploadFileWithRetry calls the upload at most 3 times, returns the data
\* of the first successful attempt and stops there, waits 2 s then 4 s between a
\* failed attempt and the next, rethrows the third failure's error without a
\* further wait, and always terminates.
C34_UploadRetryBounded ==
  /\ []RetryShape
  /\ (rty.pc = "upload") ~> (rty.pc \in {"returned", "thrown"})

\* Two failures, two waits, then a success; and three failures.
C34_Witness ==
  /\ rty.pc = "returned"
  /\ Len(rty.calls) = 3
  /\ rty.waits = <<2000, 4000>>

\* What holds of a call of queryWithTimeout at every moment: the caller's
\* promise carries the first of the events, a timeout comes exactly t ms after
\* the call, and the timer is cleared exactly when the query came first
\* (events: what happened and when, in order).
TimeoutShape ==
  /\ Len(qto.events) <= 2
  /\ qto.events = <<>> <=> qto.promise = Pending
  /\ qto.events # <<>> => qto.promise = qto.events[1].what
  /\ \A i \in 1..Len(qto.events) :
       "after" \in DOMAIN qto.events[i].what =>
         qto.events[i].at = qto.t /\ qto.events[i].what.after = qto.t
  /\ qto.timer = "cleared" <=>
       (qto.events # <<>> /\ "after" \notin DOMAIN qto.events[1].what)

\* C35: queryWithTimeout settles once, with whichever comes first of queryFn's
\* result, queryFn's error and the timeout after t ms; the timer is cleared when
\* queryFn settles first, and nothing that happens after the first settlement
\* changes the caller's outcome.
C35_SettlesOnceWithFirst ==
  /\ []TimeoutShape
  /\ [][qto.promise # Pending => qto'.promise = qto.promise]_vars

\* The timeout came first and the query completed afterwards.
C35_Witness ==
  /\ Len(qto.events) = 2
  /\ "after" \in DOMAIN qto.events[1].what
  /\ qto.promise = TimeoutError(10000)
  /\ qto.query = "settled"

\* C36: an /upload request answered with anything but HTTP 200 has left no
\* blob in storage, no row in the store and no cache entry.
C36_FailedUploadLeavesNothing ==
  \A r \in Reqs :
    (req[r].kind = "upload" /\ req[r].pc = "done" /\ req[r].status # 200) =>
      /\ req[r].blobs = {}
      /\ req[r].fetched # "late"
      /\ ~req[r].cacheOk

\* C37: no error body is ever stored under cache:/submission/<id>, and no GET
\* is answered HTTP 200 with an error body.
C37_ErrorsAreNotCached ==
  /\ \A id \in IdSpace :
       respCache[id] # Nil => "error" \notin DOMAIN JSON_parse(respCache[id])
  /\ \A r \in Reqs :
       (req[r].kind = "get" /\ req[r].pc = "done" /\ req[r].status = 200) =>
         "error" \notin DOMAIN req[r].body

\* C38 as stated: every /tailor-cv request that passed validation has added a
\* cv-processing job by the time it is answered.
C38_EveryValidRequestEnqueues ==
  \A r \in Reqs :
    (req[r].kind = "tailor" /\ req[r].pc = "done" /\ req[r].body # ErrValidation) =>
      req[r].job # NoJob

\* C38: a /tailor-cv request adds its cv-processing job in one step, from the
\* enqueue point of the handler, before any invocation of the generative
\* service, and adds none afterwards; a request that invokes the service or is
\* answered after that point has its job; and no step of a request, a 500
\* answer included, takes a job out of the queue or changes one.
C38_OneJobBeforeGeneration ==
  [][\A r \in Reqs :
       LET a == req[r]
           b == req'[r]
           running == a.kind = "tailor" /\ a.pc # "done"
       IN /\ (b.kind = "tailor" /\ b.job # NoJob /\ ~(running /\ a.job # NoJob)
              /\ a # b) =>
               /\ running /\ a.pc = "t_enqueue"
               /\ a.outs = <<>> /\ b.outs = <<>>
               /\ b.job = [submissionId |-> a.id]
               /\ cvQueue' = Append(cvQueue, b.job)
          /\ (running /\ a.job # NoJob /\ a # b) => (b.job = a.job /\ cvQueue' = cvQueue)
          /\ (running /\ a.job = NoJob /\ b.job = NoJob /\ a # b) => cvQueue' = cvQueue
          /\ (b.kind = "tailor" /\ b.outs # <<>>) => b.job # NoJob
          /\ (b.kind = "tailor" /\ b.pc \in {"t_gen", "t_render"}) => b.job # NoJob
    ]_vars

\* A request answered 500 after its retries, its job still waiting in the queue.
C38_Witness ==
  \E r \in Reqs :
    /\ req[r].kind = "tailor" /\ req[r].pc = "done" /\ req[r].status = 500
    /\ Len(req[r].outs) = 3
    /\ req[r].job # NoJob
    /\ cvQueue = <<req[r].job>>

\* C39: once a /tailor-cv request is answered, the browser it launched is
\* closed, whichever step failed; no browser is left behind.
C39_BrowserClosedWhenAnswered ==
  /\ \A r \in Reqs :
       (brw.slots[r].at = 0 /\ brw.slots[r].status # 0) => brw.slots[r].browser # "open"
  /\ brw.leaked = 0

\* What C40 asks of every step of the queues: the execution of a cv-processing
\* job adds one pdf-generation job for it at its add and none anywhere else,
\* and a job completes only from an execution that has made its add.
OnePdfJobPerExecution ==
  \A j \in Added :
    LET a == qjobs[j]
        b == qjobs'[j]
        n == Len(qjobs)
        adds == a.state = "active" /\ a.phase = "handler" /\ b.phase = "return"
    IN a.queue = "cv-processing" =>
         /\ (adds /\ n < MaxQJobs) =>
              /\ Len(qjobs') = n + 1
              /\ qjobs'[n + 1] = [NewJob("pdf-generation", j) EXCEPT !.state = "waiting"]
         /\ (b.state = "completed" /\ a.state # "completed") =>
              (a.phase = "return" /\ Len(qjobs') = n)
         /\ (Len(qjobs') > n /\ qjobs'[n + 1].parent = j) => adds

\* The jobs of the two queues of the pipeline (terminal states are final, so
\* a moment at which all of them are terminal is one for each of them).
PipelineJobs == {j \in Added : qjobs[j].queue \in {"cv-processing", "pdf-generation"}}

\* C40: with fair workers every cv-processing job added reaches completed or
\* failed; each execution of its handler that gets to return has added exactly
\* one pdf-generation job for it; and that job reaches completed or failed too.
C40_PipelineTerminates ==
  /\ [][OnePdfJobPerExecution]_vars
  /\ (PipelineJobs # {}) ~> (\A j \in PipelineJobs : Terminal(j))

\* A cv-processing job completed, and the pdf-generation job it added completed.
C40_Witness ==
  \E j, k \in Added :
    /\ qjobs[j].queue = "cv-processing" /\ qjobs[j].state = "completed"
    /\ qjobs[k].queue = "pdf-generation" /\ qjobs[k].parent = j
    /\ qjobs[k].state = "completed"

====
